---- MODULE Spec2Model ----
(***************************************************************************)
(* The route tree and router of owlbear (src/owlbear/router.py).           *)
(*                                                                         *)
(* Text is modelled at character level: a Python str is a sequence of      *)
(* one-character strings, so that strip, split, the parameter regular      *)
(* expression, int() and upper() are computed the way the code computes    *)
(* them.  A RouteTree is an arena: a function from node positions (the     *)
(* sequence of child keys leading from the root) to node records; the      *)
(* insertion order of the Python dicts `children` and `methods` is kept    *)
(* as sequences inside each node.                                          *)
(***************************************************************************)
EXTENDS Integers, Sequences, FiniteSets, TLC

VARIABLES
    tree,            \* Router.tree, per router: the RouteTree arena
    handler_to_url,  \* Router.handler_to_url, per router
    middleware,      \* Router.middleware, per router (a list)
    res,             \* outcome of the last call (its return value or exception)
    hist,            \* history: the routes and middleware registered so far
    run,             \* the dispatch in flight (chain, call stack position, log)
    exception_handlers,  \* Owlbear.exception_handlers (a list)
    response,        \* a Response object: its _headers_sent and _done
    reply            \* the messages sent on the reply channel, in order

\* the state of the application around the router
appvars == <<exception_handlers, response, reply>>

vars == <<tree, handler_to_url, middleware, res, hist, run, appvars>>

---------------------------------------------------------------------------
(* Characters and strings *)

Range(s) == {s[i] : i \in 1..Len(s)}

Digits == {"0", "1", "2", "3", "4", "5", "6", "7", "8", "9"}

Lowers ==
    {"a", "b", "c", "d", "e", "f", "g", "h", "i", "j", "k", "l", "m",
     "n", "o", "p", "q", "r", "s", "t", "u", "v", "w", "x", "y", "z"}

Uppers ==
    {"A", "B", "C", "D", "E", "F", "G", "H", "I", "J", "K", "L", "M",
     "N", "O", "P", "Q", "R", "S", "T", "U", "V", "W", "X", "Y", "Z"}

\* [a-zA-Z_] and [a-zA-Z0-9_] of _URI_PARAMETER_RE
IdStart == Lowers \cup Uppers \cup {"_"}

IdChar == IdStart \cup Digits

\* \s of the regular expression, and what str.strip() and int() strip
WhiteSpace == {" ", "\t", "\n", "\r", "\f"}

DigitVal(c) ==
    CASE c = "0" -> 0 [] c = "1" -> 1 [] c = "2" -> 2 [] c = "3" -> 3
      [] c = "4" -> 4 [] c = "5" -> 5 [] c = "6" -> 6 [] c = "7" -> 7
      [] c = "8" -> 8 [] c = "9" -> 9

UpperChar(c) ==
    CASE c = "a" -> "A" [] c = "b" -> "B" [] c = "c" -> "C" [] c = "d" -> "D"
      [] c = "e" -> "E" [] c = "f" -> "F" [] c = "g" -> "G" [] c = "h" -> "H"
      [] c = "i" -> "I" [] c = "j" -> "J" [] c = "k" -> "K" [] c = "l" -> "L"
      [] c = "m" -> "M" [] c = "n" -> "N" [] c = "o" -> "O" [] c = "p" -> "P"
      [] c = "q" -> "Q" [] c = "r" -> "R" [] c = "s" -> "S" [] c = "t" -> "T"
      [] c = "u" -> "U" [] c = "v" -> "V" [] c = "w" -> "W" [] c = "x" -> "X"
      [] c = "y" -> "Y" [] c = "z" -> "Z" [] OTHER -> c

\* str.upper()
StrUpper(s) == [i \in 1..Len(s) |-> UpperChar(s[i])]

RECURSIVE LStrip(_, _)
\* str.lstrip(chars)
LStrip(s, cs) ==
    IF s # <<>> /\ Head(s) \in cs THEN LStrip(Tail(s), cs) ELSE s

RECURSIVE RStrip(_, _)
\* str.rstrip(chars)
RStrip(s, cs) ==
    IF s # <<>> /\ s[Len(s)] \in cs
    THEN RStrip(SubSeq(s, 1, Len(s) - 1), cs)
    ELSE s

\* str.strip(chars)
Strip(s, cs) == RStrip(LStrip(s, cs), cs)

RECURSIVE Split(_, _)
\* str.split(c) for a one-character separator: "".split("/") is [""]
Split(s, c) ==
    IF s = <<>> THEN << <<>> >>
    ELSE IF Head(s) = c THEN << <<>> >> \o Split(Tail(s), c)
    ELSE LET r == Split(Tail(s), c)
         IN  << <<Head(s)>> \o Head(r) >> \o Tail(r)

\* s.endswith(suffix)
EndsWith(s, suffix) ==
    /\ Len(s) >= Len(suffix)
    /\ SubSeq(s, Len(s) - Len(suffix) + 1, Len(s)) = suffix

\* Python's None where a str is expected: no string has a two-character element
None == <<"None">>

\* the keys '*' and '__static__', and the type names of _STAR_TYPES
STAR == <<"*">>

STATIC == <<"_", "_", "s", "t", "a", "t", "i", "c", "_", "_">>

INT == <<"i", "n", "t">>

STR == <<"s", "t", "r">>

GET == <<"G", "E", "T">>

\* _STAR_TYPES: the recognised parameter kinds
STAR_TYPES == {INT, STR}

---------------------------------------------------------------------------
(* Values bound to path parameters: a Python int or a Python str *)

IntVal(n) == [kind |-> "int", i |-> n, s |-> <<>>]

StrVal(s) == [kind |-> "str", i |-> 0, s |-> s]

RECURSIVE DigitsValue(_, _)
\* the value of a run of digits and underscores, most significant first
DigitsValue(s, acc) ==
    IF s = <<>> THEN acc
    ELSE IF Head(s) = "_" THEN DigitsValue(Tail(s), acc)
    ELSE DigitsValue(Tail(s), 10 * acc + DigitVal(Head(s)))

\* int(text): surrounding whitespace, an optional sign, decimal digits which
\* single underscores may separate; anything else raises ValueError
ParseInt(text) ==
    LET t    == Strip(text, WhiteSpace)
        sign == IF t # <<>> /\ Head(t) \in {"+", "-"} THEN Head(t) ELSE ""
        body == IF sign = "" THEN t ELSE Tail(t)
        ok   == /\ body # <<>>
                /\ Range(body) \subseteq Digits \cup {"_"}
                /\ body[1] # "_" /\ body[Len(body)] # "_"
                /\ \A i \in 1..(Len(body) - 1) :
                       ~(body[i] = "_" /\ body[i + 1] = "_")
    IN  IF ok
        THEN [err |-> "", val |-> IF sign = "-" THEN 0 - DigitsValue(body, 0)
                                               ELSE DigitsValue(body, 0)]
        ELSE [err |-> "ValueError", val |-> 0]

\* _STAR_TYPES[star_type](last_part): int(...) or str(...)
Convert(star_type, last_part) ==
    IF star_type = INT
    THEN LET p == ParseInt(last_part)
         IN  [err |-> p.err, val |-> IntVal(p.val)]
    ELSE [err |-> "", val |-> StrVal(last_part)]

---------------------------------------------------------------------------
(* The path grammar *)

RECURSIVE IdPrefixLen(_)
\* length of the longest prefix of s made of identifier characters
IdPrefixLen(s) ==
    IF s # <<>> /\ Head(s) \in IdChar THEN 1 + IdPrefixLen(Tail(s)) ELSE 0

\* _URI_PARAMETER_RE.match(key): ^<([a-zA-Z_][a-zA-Z0-9_]*)?(?::\s*([^>]*))?>$
\* g1, g2 are the groups (None when the group did not take part)
URI_PARAMETER_RE(key) ==
    LET nomatch == [matched |-> FALSE, g1 |-> None, g2 |-> None]
    IN  IF ~(Len(key) >= 2 /\ key[1] = "<" /\ key[Len(key)] = ">")
        THEN nomatch
        ELSE LET mid  == SubSeq(key, 2, Len(key) - 1)
                 n    == IF mid # <<>> /\ mid[1] \in IdStart
                         THEN IdPrefixLen(mid) ELSE 0
                 g1   == IF n = 0 THEN None ELSE SubSeq(mid, 1, n)
                 rest == SubSeq(mid, n + 1, Len(mid))
             IN  IF rest = <<>>
                 THEN [matched |-> TRUE, g1 |-> g1, g2 |-> None]
                 ELSE IF rest[1] = ":" /\ ">" \notin Range(Tail(rest))
                 THEN [matched |-> TRUE, g1 |-> g1,
                       g2 |-> LStrip(Tail(rest), WhiteSpace)]
                 ELSE nomatch

\* a variant of _get_star_attrs without the test for a name that an earlier
\* segment of the path has
get_star_attrs_any_name(key, parent_parameter_names) ==
    LET matches == URI_PARAMETER_RE(key)
        bad     == [err |-> "BadRouteParameter", star_name |-> None,
                    star_type |-> None, names |-> parent_parameter_names]
    IN  IF matches.matched
        THEN LET star_name ==
                     IF matches.g1 = None THEN <<>>
                     ELSE Strip(matches.g1, WhiteSpace)
                 star_type_name ==
                     IF matches.g2 = None \/ matches.g2 = <<>> THEN STR
                     ELSE matches.g2
             IN  IF star_name = <<>> THEN bad
                 ELSE IF star_type_name \notin STAR_TYPES THEN bad
                 ELSE [err |-> "", star_name |-> star_name,
                       star_type |-> star_type_name,
                       names |-> Append(parent_parameter_names, star_name)]
        ELSE [err |-> "", star_name |-> None, star_type |-> None,
              names |-> parent_parameter_names]

\* _get_star_attrs(key, parent_parameter_names); names is the list after the call
get_star_attrs(key, parent_parameter_names) ==
    LET matches == URI_PARAMETER_RE(key)
        bad     == [err |-> "BadRouteParameter", star_name |-> None,
                    star_type |-> None, names |-> parent_parameter_names]
    IN  IF matches.matched
        THEN LET star_name ==
                     IF matches.g1 = None THEN <<>>
                     ELSE Strip(matches.g1, WhiteSpace)
                 star_type_name ==
                     IF matches.g2 = None \/ matches.g2 = <<>> THEN STR
                     ELSE matches.g2
             IN  IF star_name = <<>> THEN bad
                 ELSE IF star_name \in Range(parent_parameter_names) THEN bad
                 ELSE IF star_type_name \notin STAR_TYPES THEN bad
                 ELSE [err |-> "", star_name |-> star_name,
                       star_type |-> star_type_name,
                       names |-> Append(parent_parameter_names, star_name)]
        ELSE [err |-> "", star_name |-> None, star_type |-> None,
              names |-> parent_parameter_names]

\* a variant that strips the leading slashes only
make_uri_parts_lstrip(path) ==
    LET p == LStrip(path, {"/"})
    IN  Split(IF p # <<>> THEN <<"/">> \o p ELSE p, "/")

\* _make_uri_parts(path)
make_uri_parts(path) ==
    LET p == Strip(path, {"/"})
    IN  Split(IF p # <<>> THEN <<"/">> \o p ELSE p, "/")

---------------------------------------------------------------------------
(* RouteTree *)

\* a request handler: a function object (its identity) and its __name__
NoHandler == [id |-> 0, name |-> "None"]

\* RouteTree.__init__(prefix, star_name, star_type): the two assertions
RouteTree(prefix, star_name, star_type) ==
    LET ok == IF EndsWith(prefix, <<"/", "*">>)
              THEN star_name # None /\ star_type # None
              ELSE star_name = None /\ star_type = None
    IN  [err  |-> IF ok THEN "" ELSE "AssertionError",
         node |-> [prefix |-> prefix, children |-> <<>>, methods |-> <<>>,
                   star_name |-> star_name, star_type |-> star_type]]

\* Router.__init__: self.tree = RouteTree("")
EmptyTree == (<<>> :> RouteTree(<<>>, None, None).node)

\* self.methods.get(method)
MethodsGet(methods, method) ==
    IF \E i \in 1..Len(methods) : methods[i].method = method
    THEN methods[CHOOSE i \in 1..Len(methods) : methods[i].method = method].handler
    ELSE NoHandler

\* key in self.children
HasChild(t, pos, key) == Append(pos, key) \in DOMAIN t

\* RouteTree._add_child(key, star_name, star_type) on the node at pos
add_child(t, pos, key, star_name, star_type) ==
    LET child_prefix == RStrip(t[pos].prefix, {"/"}) \o <<"/">> \o key
        made         == RouteTree(child_prefix, star_name, star_type)
    IN  IF made.err # ""
        THEN [err |-> made.err, tree |-> t]
        ELSE [err |-> "",
              tree |-> (Append(pos, key) :> made.node)
                       @@ [t EXCEPT ![pos].children = Append(@, key)]]

RECURSIVE add_methods_verbatim(_, _, _, _)
\* a variant of the loop that stores each verb as it was given, without
\* upper-casing it
add_methods_verbatim(node, handler, methods, updates) ==
    IF methods = <<>>
    THEN [err |-> "", node |-> node, updates |-> updates]
    ELSE IF MethodsGet(node.methods, Head(methods)) # NoHandler
    THEN [err |-> "ConflictingRoutes", node |-> node, updates |-> <<>>]
    ELSE add_methods_verbatim(
             [node EXCEPT !.methods =
                  Append(@, [method |-> Head(methods), handler |-> handler])],
             handler, Tail(methods),
             ([name |-> handler.name, method |-> Head(methods)]
                  :> [path |-> <<>>, req |-> {}]) @@ updates)

\* methods[method] = handler, replacing the entry the verb may have
MethodsPut(methods, method, handler) ==
    IF \E i \in 1..Len(methods) : methods[i].method = method
    THEN [i \in 1..Len(methods) |->
             IF methods[i].method = method
             THEN [method |-> method, handler |-> handler] ELSE methods[i]]
    ELSE Append(methods, [method |-> method, handler |-> handler])

RECURSIVE add_methods_overwrite(_, _, _, _)
\* a variant of the loop without the test that raises ConflictingRoutes: the
\* later registration replaces the earlier one
add_methods_overwrite(node, handler, methods, updates) ==
    IF methods = <<>>
    THEN [err |-> "", node |-> node, updates |-> updates]
    ELSE add_methods_overwrite(
             [node EXCEPT !.methods =
                  MethodsPut(@, StrUpper(Head(methods)), handler)],
             handler, Tail(methods),
             ([name |-> handler.name, method |-> StrUpper(Head(methods))]
                  :> [path |-> <<>>, req |-> {}]) @@ updates)

RECURSIVE add_methods(_, _, _, _)
\* the loop of add_handler over `methods` at the node that ends the path
add_methods(node, handler, methods, updates) ==
    IF methods = <<>>
    THEN [err |-> "", node |-> node, updates |-> updates]
    ELSE LET method == StrUpper(Head(methods))
         IN  IF MethodsGet(node.methods, method) # NoHandler
             THEN [err |-> "ConflictingRoutes", node |-> node, updates |-> <<>>]
             ELSE add_methods(
                      [node EXCEPT !.methods =
                           Append(@, [method |-> method, handler |-> handler])],
                      handler, Tail(methods),
                      ([name |-> handler.name, method |-> method]
                           :> [path |-> <<>>, req |-> {}]) @@ updates)

\* the rewriting of one reverse-index entry as add_handler's recursion unwinds
add_prefix(star_name, key, entry) ==
    IF star_name # None
    THEN [path |-> <<"/", "{">> \o star_name \o <<"}">> \o entry.path,
          req  |-> entry.req \cup {star_name}]
    ELSE IF key # <<>> \/ entry.path = <<>>
    THEN [path |-> <<"/">> \o key \o entry.path, req |-> entry.req]
    ELSE entry

\* a variant of the comparisons that accepts any parameter for the child
star_conflict_never(sa, key_route) == FALSE

\* add_handler's two comparisons of the parsed segment with the child found
\* or made for it
star_conflict(sa, key_route) ==
    \/ sa.star_name # key_route.star_name
    \/ sa.star_type # key_route.star_type

\* the child key of a path segment: '*' for a parameter
child_key(sa, key0) == IF sa.star_name # None THEN STAR ELSE key0

\* a variant that makes the child anew also when the node has one for the key
ensure_child_anew(t, pos, key, sa) ==
    add_child(t, pos, key, sa.star_name, sa.star_type)

\* `if key not in self.children: self._add_child(...)`
ensure_child(t, pos, key, sa) ==
    IF HasChild(t, pos, key) THEN [err |-> "", tree |-> t]
    ELSE add_child(t, pos, key, sa.star_name, sa.star_type)

\* the loop of add_handler over the updates its recursive call returned
rewrite_updates(r, star_name, key) ==
    [err |-> r.err, tree |-> r.tree,
     updates |-> [k \in DOMAIN r.updates |->
                     add_prefix(star_name, key, r.updates[k])]]

\* add_handler's result at the node that ends the path
at_leaf(t, pos, r) ==
    [err |-> r.err, tree |-> [t EXCEPT ![pos] = r.node], updates |-> r.updates]

RECURSIVE add_handler(_, _, _, _, _, _, _)

\* add_handler once the child for the segment exists (ac: the tree with it):
\* the comparisons with the child's parameter, then the recursive call
add_descend(ac, pos, key, rest, handler, methods, sa, allow_stars) ==
    IF ac.err # ""
    THEN [err |-> ac.err, tree |-> ac.tree, updates |-> <<>>]
    ELSE IF star_conflict(sa, ac.tree[Append(pos, key)])
    THEN [err |-> "BadRouteParameter", tree |-> ac.tree, updates |-> <<>>]
    ELSE rewrite_updates(
             add_handler(ac.tree, Append(pos, key), rest, handler, methods,
                         sa.names, allow_stars),
             sa.star_name, key)

\* add_handler for a non-empty uri_parts, once its first part is parsed (sa)
add_part(t, pos, key0, rest, handler, methods, sa, allow_stars) ==
    IF sa.err # ""
    THEN [err |-> sa.err, tree |-> t, updates |-> <<>>]
    ELSE IF sa.star_name # None /\ ~allow_stars
    THEN [err |-> "BadRouteParameter", tree |-> t, updates |-> <<>>]
    ELSE add_descend(ensure_child(t, pos, child_key(sa, key0), sa), pos,
                     child_key(sa, key0), rest, handler, methods, sa,
                     allow_stars)

\* a variant that looks at `methods` only at the node that ends the path,
\* after the nodes on the way were made
add_handler_check_at_leaf(t, pos, uri_parts, handler, methods, parent_parameter_names, allow_stars) ==
    IF uri_parts = <<>>
    THEN (IF methods = <<>>
          THEN [err |-> "ValueError", tree |-> t, updates |-> <<>>]
          ELSE at_leaf(t, pos, add_methods(t[pos], handler, methods, <<>>)))
    ELSE add_part(t, pos, Head(uri_parts), Tail(uri_parts), handler, methods,
                  get_star_attrs(Head(uri_parts), parent_parameter_names),
                  allow_stars)

\* RouteTree.add_handler on the node at pos of tree t.  The tree is returned
\* also when the call raises: what it changed before raising stays changed.
add_handler(t, pos, uri_parts, handler, methods, parent_parameter_names, allow_stars) ==
    IF methods = <<>>
    THEN [err |-> "ValueError", tree |-> t, updates |-> <<>>]
    ELSE IF uri_parts = <<>>
    THEN at_leaf(t, pos, add_methods(t[pos], handler, methods, <<>>))
    ELSE add_part(t, pos, Head(uri_parts), Tail(uri_parts), handler, methods,
                  get_star_attrs(Head(uri_parts), parent_parameter_names),
                  allow_stars)

\* a variant whose failed conversion raises RouteNotFound, the exception the
\* callers catch
parse_last_uri_part_not_found(node, last_part) ==
    IF node.star_type = None
    THEN [err |-> "", name |-> None, val |-> StrVal(<<>>)]
    ELSE LET c == Convert(node.star_type, last_part)
         IN  IF c.err # ""
             THEN [err |-> "RouteNotFound", name |-> None, val |-> c.val]
             ELSE [err |-> "", name |-> node.star_name, val |-> c.val]

\* RouteTree._parse_last_uri_part(last_part) on a node
parse_last_uri_part(node, last_part) ==
    IF node.star_type = None
    THEN [err |-> "", name |-> None, val |-> StrVal(<<>>)]
    ELSE LET c == Convert(node.star_type, last_part)
         IN  IF c.err # ""
             THEN [err |-> "ParameterTypeError", name |-> None, val |-> c.val]
             ELSE [err |-> "", name |-> node.star_name, val |-> c.val]

\* a raise of RouteNotFound; args is the caller's handler_args dict as it
\* stands when the exception leaves the call
NotFound(args, pos) ==
    [err |-> "RouteNotFound", handler |-> NoHandler, args |-> <<>>,
     shared |-> args, pos |-> pos]

RECURSIVE get_handler_and_args(_, _, _, _, _)

\* `if key in self.children`: the literal child is tried first
literal_branch(t, pos, key, rest, method, handler_args) ==
    IF HasChild(t, pos, key)
    THEN get_handler_and_args(t, Append(pos, key), rest, StrUpper(method),
                              handler_args)
    ELSE NotFound(handler_args, pos)

\* the '*' child once the segment is converted (pl): the parameter is written
\* into handler_args, then the child is searched
bind_and_descend(t, pos, rest, method, shared, pl) ==
    IF pl.err # ""
    THEN [err |-> pl.err, handler |-> NoHandler, args |-> <<>>,
          shared |-> shared, pos |-> pos]
    ELSE get_handler_and_args(t, Append(pos, STAR), rest, method,
             IF pl.name # None THEN (pl.name :> pl.val) @@ shared ELSE shared)

\* `if '*' in self.children`
star_branch(t, pos, key, rest, method, shared) ==
    IF HasChild(t, pos, STAR)
    THEN bind_and_descend(t, pos, rest, method, shared,
                          parse_last_uri_part(t[Append(pos, STAR)], key))
    ELSE NotFound(shared, pos)

\* what the '__static__' child returned (r3), or the final raise
static_result(r3, shared, pos) ==
    IF r3.err # "RouteNotFound" THEN [r3 EXCEPT !.shared = shared]
    ELSE NotFound(shared, pos)

\* variant of static_branch without the final raise: the call falls off the
\* end of the method and returns nothing
static_branch_no_raise(t, pos, shared) ==
    IF HasChild(t, pos, STATIC)
    THEN static_result(
             get_handler_and_args(t, Append(pos, STATIC), <<>>, GET, <<>>),
             shared, pos)
    ELSE [err |-> "", handler |-> NoHandler, args |-> shared,
          shared |-> shared, pos |-> pos]

\* `if '__static__' in self.children`, then `raise RouteNotFound`
static_branch(t, pos, shared) ==
    IF HasChild(t, pos, STATIC)
    THEN static_result(
             get_handler_and_args(t, Append(pos, STATIC), <<>>, GET, <<>>),
             shared, pos)
    ELSE NotFound(shared, pos)

\* after the '*' child (r2): its result, or on RouteNotFound the static child
or_else_static(t, pos, r2) ==
    IF r2.err # "RouteNotFound" THEN r2
    ELSE static_branch(t, pos, r2.shared)

\* a variant that consults the static child before the '*' child
or_else_star_static_first(t, pos, key, rest, method, r1) ==
    IF r1.err # "RouteNotFound" THEN r1
    ELSE IF static_branch(t, pos, r1.shared).err # "RouteNotFound"
         THEN static_branch(t, pos, r1.shared)
         ELSE star_branch(t, pos, key, rest, method, r1.shared)

\* after the literal child (r1): its result, or on RouteNotFound the '*' child
or_else_star(t, pos, key, rest, method, r1) ==
    IF r1.err # "RouteNotFound" THEN r1
    ELSE or_else_static(t, pos,
                        star_branch(t, pos, key, rest, method, r1.shared))

\* RouteTree.get_handler_and_args on the node at pos.  handler_args is the
\* dict the caller passed; `shared` is that same dict after the call (the
\* callee writes into it), `args` the mapping returned, `pos` the node whose
\* methods were read.
get_handler_and_args(t, pos, uri_parts, method, handler_args) ==
    IF uri_parts = <<>>
    THEN [err |-> "", handler |-> MethodsGet(t[pos].methods, StrUpper(method)),
          args |-> handler_args, shared |-> handler_args, pos |-> pos]
    ELSE or_else_star(t, pos, Head(uri_parts), Tail(uri_parts), method,
             literal_branch(t, pos, Head(uri_parts), Tail(uri_parts), method,
                            handler_args))

---------------------------------------------------------------------------
(* Mounting: reset_prefix, list_handlers, merge_with *)

RECURSIVE reset_prefix_arg(_, _)
\* the new_prefix argument with which reset_prefix reaches the node at pos,
\* when the root was called with new_prefix
reset_prefix_arg(pos, new_prefix) ==
    IF pos = <<>> THEN new_prefix
    ELSE RStrip(reset_prefix_arg(SubSeq(pos, 1, Len(pos) - 1), new_prefix)
                    \o <<"/">> \o pos[Len(pos)], {"/"})

\* RouteTree.reset_prefix(new_prefix) on the root of t
reset_prefix(t, new_prefix) ==
    [pos \in DOMAIN t |->
        IF t[pos].prefix # <<>>
        THEN [t[pos] EXCEPT
                 !.prefix = RStrip(reset_prefix_arg(pos, new_prefix), {"/"})]
        ELSE t[pos]]

\* s.rsplit("/", 1)[0]
RSplitHead(s) ==
    IF "/" \in Range(s)
    THEN SubSeq(s, 1, (CHOOSE i \in 1..Len(s) :
                          s[i] = "/" /\ \A j \in (i + 1)..Len(s) : s[j] # "/") - 1)
    ELSE s

\* s.split("/")[-1]
SplitLast(s) == LET parts == Split(s, "/") IN parts[Len(parts)]

RECURSIVE list_handlers(_, _, _)
RECURSIVE list_children(_, _, _, _)
\* RouteTree.list_handlers(prefix) on the node at pos; prefix None is None
list_handlers(t, pos, prefix) ==
    LET node     == t[pos]
        prefix1  == IF prefix = None THEN RSplitHead(node.prefix) ELSE prefix
        key0     == SplitLast(node.prefix)
        key      == IF key0 = STAR
                    THEN <<"<">> \o node.star_name \o <<":", " ">>
                             \o node.star_type \o <<">">>
                    ELSE key0
        full_key == RStrip(prefix1, {"/"}) \o <<"/">> \o key
    IN  [i \in 1..Len(node.methods) |->
            [path |-> full_key, method |-> node.methods[i].method,
             handler |-> node.methods[i].handler]]
        \o list_children(t, pos, node.children, full_key)

\* the loop of list_handlers over self.children.values(), in dict order
list_children(t, pos, keys, full_key) ==
    IF keys = <<>> THEN <<>>
    ELSE list_handlers(t, Append(pos, Head(keys)), full_key)
             \o list_children(t, pos, Tail(keys), full_key)

RECURSIVE merge_routes(_, _, _)

\* merge_with after one add_handler (r): its exception ends the merge
merge_step(r, routes, updates) ==
    IF r.err # ""
    THEN [err |-> r.err, tree |-> r.tree, updates |-> <<>>]
    ELSE merge_routes(r.tree, routes, r.updates @@ updates)

\* the loop of merge_with over other.list_handlers()
merge_routes(t, routes, updates) ==
    IF routes = <<>> THEN [err |-> "", tree |-> t, updates |-> updates]
    ELSE merge_step(
             add_handler(t, <<>>, make_uri_parts(Head(routes).path),
                         Head(routes).handler, <<Head(routes).method>>,
                         <<>>, TRUE),
             Tail(routes), updates)

\* RouteTree.merge_with(other) on the root of t
merge_with(t, other) == merge_routes(t, list_handlers(other, <<>>, None), <<>>)

---------------------------------------------------------------------------
(* Router: the operations as functions of the router's fields *)

\* self.handler_to_url.update(handler_to_url_updates), reached only when the
\* call before it (r) did not raise
update_index(h2u, r) ==
    [err |-> r.err, tree |-> r.tree,
     handler_to_url |-> IF r.err = "" THEN r.updates @@ h2u ELSE h2u]

\* Router.add_route(uri_path, handler, methods) on a router with tree t and
\* reverse index h2u
add_route(t, h2u, uri_path, handler, methods) ==
    update_index(h2u, add_handler(t, <<>>, make_uri_parts(uri_path), handler,
                                  methods, <<>>, TRUE))

\* the StaticFileHandler object Router.static makes for a prefix: a new
\* object at each call, told from the others here by the length of its
\* prefix; its __name__ is always 'StaticFileHandler'
StaticFileHandler(prefix) ==
    [id |-> 4 + Len(prefix), name |-> "StaticFileHandler"]

\* '{}/__static__'.format(prefix)
static_path(prefix) == prefix \o <<"/">> \o STATIC

\* Router.static(prefix, local_path): the handler is registered for GET
\* under prefix/__static__
static(t, h2u, prefix) ==
    add_route(t, h2u, static_path(prefix), StaticFileHandler(prefix), <<GET>>)

\* the normalisation of base_path at the head of Router.attach
attach_base(base_path) ==
    IF base_path = <<>> THEN <<>>
    ELSE IF Head(base_path) # "/"
    THEN <<"/">> \o base_path
    ELSE IF base_path = <<"/">> THEN <<>> ELSE base_path

\* the end of Router.attach: the reverse index is updated when merge_with (r)
\* did not raise
attach_update(h2u, other1, r) ==
    [err |-> r.err, tree |-> r.tree, other |-> other1,
     handler_to_url |-> IF r.err = "" THEN r.updates @@ h2u ELSE h2u]

\* a variant that gives the parent its tree back when merge_with raised
attach_merge_rollback(t, h2u, other1) ==
    IF merge_with(t, other1).err # ""
    THEN [attach_update(h2u, other1, merge_with(t, other1)) EXCEPT !.tree = t]
    ELSE attach_update(h2u, other1, merge_with(t, other1))

\* Router.attach after router.tree.reset_prefix(base_path) gave other1
attach_merge(t, h2u, other1) == attach_update(h2u, other1, merge_with(t, other1))

\* Router.attach(router, base_path): t, h2u are the fields of self, other the
\* tree of the attached router, which reset_prefix rewrites
attach(t, h2u, other, base_path) ==
    attach_merge(t, h2u, reset_prefix(other, attach_base(base_path)))

\* Router.handler_and_args_for(uri_path, method)
handler_and_args_for(t, uri_path, method) ==
    get_handler_and_args(t, <<>>, make_uri_parts(uri_path), method, <<>>)

---------------------------------------------------------------------------
(* Reverse lookup: url_for *)

\* the decimal digit d as a character
DigitChar(d) == <<"0", "1", "2", "3", "4", "5", "6", "7", "8", "9">>[d + 1]

RECURSIVE NatStr(_)
\* str(n) for n >= 0
NatStr(n) ==
    IF n < 10 THEN <<DigitChar(n)>>
    ELSE NatStr(n \div 10) \o <<DigitChar(n % 10)>>

\* format(value, ''), which is str(value), of a parameter value
\* a variant that writes a text value as repr does, between quotes
ValueStr_repr(v) ==
    IF v.kind = "int"
    THEN (IF v.i < 0 THEN <<"-">> \o NatStr(0 - v.i) ELSE NatStr(v.i))
    ELSE <<"'">> \o v.s \o <<"'">>

ValueStr(v) ==
    IF v.kind = "int"
    THEN (IF v.i < 0 THEN <<"-">> \o NatStr(0 - v.i) ELSE NatStr(v.i))
    ELSE v.s

RECURSIVE FirstIndex(_, _)
\* s.find(c) + 1: the place of the first c in s, 0 when there is none
FirstIndex(s, c) ==
    IF s = <<>> THEN 0
    ELSE IF Head(s) = c THEN 1
    ELSE LET k == FirstIndex(Tail(s), c) IN IF k = 0 THEN 0 ELSE k + 1

\* the text written so far put before what the rest of the template gave
FormatJoin(chars, r) ==
    IF r.err # "" THEN r ELSE [err |-> "", val |-> chars \o r.val]

\* the characters that give a replacement field more than a name: attribute,
\* index, conversion, format spec, nested field
FieldSyntax == {".", "[", "!", ":", "{"}

RECURSIVE Format(_, _)
\* the replacement field that starts the template s (s[1] is "{") and closes
\* at k: an empty or numeric field asks for a positional argument, of which
\* url_for passes none; any other name is looked up in kwargs.  A field with
\* more than a name is written by add_handler for no parameter; it is taken
\* to raise.
FormatField(s, k, kwargs) ==
    IF k = 0 \/ Range(SubSeq(s, 2, k)) \cap FieldSyntax # {}
    THEN [err |-> "ValueError", val |-> <<>>]
    ELSE IF Range(SubSeq(s, 2, k)) \subseteq Digits
    THEN [err |-> "IndexError", val |-> <<>>]
    ELSE IF SubSeq(s, 2, k) \notin DOMAIN kwargs
    THEN [err |-> "KeyError", val |-> <<>>]
    ELSE FormatJoin(ValueStr(kwargs[SubSeq(s, 2, k)]),
                    Format(SubSeq(s, k + 2, Len(s)), kwargs))

\* template.format(**kwargs): "{{" and "}}" stand for a brace, "{name}" for
\* the string form of kwargs[name]
Format(s, kwargs) ==
    IF s = <<>> THEN [err |-> "", val |-> <<>>]
    ELSE IF Len(s) >= 2 /\ s[1] = s[2] /\ s[1] \in {"{", "}"}
    THEN FormatJoin(<<s[1]>>, Format(SubSeq(s, 3, Len(s)), kwargs))
    ELSE IF Head(s) = "}" THEN [err |-> "ValueError", val |-> <<>>]
    ELSE IF Head(s) = "{"
    THEN FormatField(s, FirstIndex(Tail(s), "}"), kwargs)
    ELSE FormatJoin(<<Head(s)>>, Format(Tail(s), kwargs))

\* self.handler_to_url.get((handler_name, method), (None, set()))
index_get(h2u, handler_name, method) ==
    IF [name |-> handler_name, method |-> method] \in DOMAIN h2u
    THEN h2u[[name |-> handler_name, method |-> method]]
    ELSE [path |-> <<>>, req |-> {}]

\* url_for once the entry is found: the missing names, then the extra names,
\* then the template is filled in
url_for_entry(entry, param_args) ==
    IF entry.req # {} /\ entry.req \ DOMAIN param_args # {}
    THEN [err |-> "BadHandlerParameters", val |-> <<>>]
    ELSE IF DOMAIN param_args \ entry.req # {}
    THEN [err |-> "BadHandlerParameters", val |-> <<>>]
    ELSE Format(entry.path, param_args)

\* Router.url_for(handler_name, method, param_args) on a router with reverse
\* index h2u; method is used as given, `if not path` takes a missing entry
\* and an empty path alike
url_for(h2u, handler_name, method, param_args) ==
    IF index_get(h2u, handler_name, method).path = <<>>
    THEN [err |-> "HandlerNameNotFound", val |-> <<>>]
    ELSE url_for_entry(index_get(h2u, handler_name, method), param_args)

---------------------------------------------------------------------------
(* Middleware and dispatch *)

\* a variant that appends to the list
register_middleware_append(mws, mw) == Append(mws, mw)

\* Router.register_middleware(middleware) on the list mws
register_middleware(mws, mw) == <<mw>> \o mws

\* a variant that binds no keyword argument
bound_handler_bare(handler, handler_args) ==
    [kind |-> "handler", id |-> handler.id, args |-> <<>>]

\* functools.partial(_handler, **handler_args): the innermost callable
bound_handler(handler, handler_args) ==
    [kind |-> "handler", id |-> handler.id, args |-> handler_args]

RECURSIVE wrap_middleware(_, _)
\* the loop of Router.dispatch over self.middleware: each middleware wraps the
\* callable built so far.  A callable is the sequence of the nested partials,
\* outermost first; its last element is the bound handler.
wrap_middleware(mws, handler) ==
    IF mws = <<>> THEN handler
    ELSE wrap_middleware(Tail(mws),
             <<[kind |-> Head(mws).kind, id |-> Head(mws).id, args |-> <<>>]>>
                 \o handler)

\* the callable Router.dispatch awaits for a looked-up handler
dispatch_chain(mws, handler, handler_args) ==
    wrap_middleware(mws, <<bound_handler(handler, handler_args)>>)

---------------------------------------------------------------------------
(* Response: composing and sending an ASGI response *)

\* Response.__init__, the fields that sending reads and writes
NewResponse(status) ==
    [status |-> status, headers_sent |-> FALSE, done |-> FALSE]

\* Response._form_content_response(content, done)
form_content_response(content, done) ==
    [content |-> content, more_content |-> ~done]

\* Response._form_header_response(): the headers are not told apart
form_header_response(resp) ==
    [status |-> resp.status, headers |-> "headers"]

\* dict.update: the entries of `other` are put over those of d
DictUpdate(d, other) == other @@ d

\* Response._form_full_response()
form_full_response(resp) ==
    DictUpdate(DictUpdate(form_header_response(resp),
                          form_content_response(<<>>, TRUE)),
               [done |-> TRUE])

\* Response.stream_to(channel, content, done): the response and the channel
\* after the call, and the exception it raised
stream_to(resp, channel, content, done) ==
    IF resp.done
    THEN [err |-> "ResponseError", response |-> resp, channel |-> channel]
    ELSE [err |-> "",
          response |-> [resp EXCEPT !.done = done],
          channel |->
              Append(channel,
                     IF ~resp.headers_sent
                     THEN DictUpdate(form_content_response(content, done),
                                     form_header_response(resp))
                     ELSE form_content_response(content, done))]

\* Response.send_to(channel)
send_to(resp, channel) ==
    IF resp.headers_sent \/ resp.done
    THEN [err |-> "ResponseError", response |-> resp, channel |-> channel]
    ELSE [err |-> "",
          response |-> [resp EXCEPT !.headers_sent = TRUE, !.done = TRUE],
          channel |-> Append(channel, form_full_response(resp))]

---------------------------------------------------------------------------
(* Owlbear: the application around the router *)

\* the classes an exception of the class named is an instance of: the
\* exceptions of the router and the built-in ones derive from Exception
ClassesOf(e) == {e, "Exception"}

\* isinstance(e, exception_types), exception_types a class or a tuple of
\* classes
IsInstance(e, exception_types) == ClassesOf(e) \cap exception_types # {}

\* exceptions.default_exception_handler: a text/plain 500
default_exception_handler(e) == NewResponse(500)

\* None where a Response is expected
NoResponse == [status |-> 0, headers_sent |-> FALSE, done |-> FALSE]

\* an exception handler called with the exception: a Response with the
\* status it sets, or None
CallHandler(handler, e) ==
    IF handler.status = 0 THEN NoResponse ELSE NewResponse(handler.status)

RECURSIVE handle_exception(_, _, _)
\* the `for ... else` of Owlbear.__call__ over the handlers not yet tried,
\* given in the order of reversed(self.exception_handlers): the response to
\* send and the handlers that were called
handle_exception(handlers, e, tried) ==
    IF handlers = <<>>
    THEN [response |-> default_exception_handler(e), tried |-> tried]
    ELSE IF ~IsInstance(e, Head(handlers).types)
    THEN handle_exception(Tail(handlers), e, tried)
    ELSE IF CallHandler(Head(handlers), e) # NoResponse
    THEN [response |-> CallHandler(Head(handlers), e),
          tried |-> Append(tried, Head(handlers).id)]
    ELSE handle_exception(Tail(handlers), e,
                          Append(tried, Head(handlers).id))

\* the handlers in the order of their registration
registration_order(seq) == seq

\* reversed(seq)
Reversed(seq) == [i \in 1..Len(seq) |-> seq[Len(seq) + 1 - i]]

\* Owlbear.__call__ once dispatch has raised e ("" when it returned a
\* response): the handlers called and the reply channel after send_to
app_call(handlers, channel, e) ==
    IF e = ""
    THEN [tried |-> <<>>, sent |-> send_to(NewResponse(200), channel)]
    ELSE [tried |-> handle_exception(Reversed(handlers), e, <<>>).tried,
          sent |-> send_to(
                       handle_exception(Reversed(handlers), e, <<>>).response,
                       channel)]

\* Owlbear.register_exception_handler(exception_types, handler)
register_exception_handler(handlers, handler) == Append(handlers, handler)

---------------------------------------------------------------------------
(* State *)

Routers == {"main", "sub"}

NoRun == [active |-> FALSE, req |-> <<>>, chain |-> <<>>, pc |-> "idle",
          i |-> 0, log |-> <<>>, built |-> 0]

NoOut == [handler |-> NoHandler, args |-> <<>>, pos |-> <<>>]

\* the record of a call: its arguments, the exception it raised ("" for none)
\* and what it returned
Call(op, router, path, handler, methods, err, out) ==
    [op |-> op, router |-> router, path |-> path, handler |-> handler,
     methods |-> methods, err |-> err, out |-> out]

Init ==
    /\ tree = [r \in Routers |-> EmptyTree]
    /\ handler_to_url = [r \in Routers |-> <<>>]
    /\ middleware = [r \in Routers |-> <<>>]
    /\ res = Call("init", "main", <<>>, NoHandler, <<>>, "", NoOut)
    /\ hist = [added |-> {}, calls |-> 0, mws |-> [r \in Routers |-> <<>>]]
    /\ run = NoRun
    /\ exception_handlers = <<>>
    /\ response = NewResponse(200)
    /\ reply = <<>>

\* the state after router.add_route(uri_path, handler, methods) returned or
\* raised (a)
AddRouteDone(r, uri_path, handler, methods, a) ==
    /\ tree' = [tree EXCEPT ![r] = a.tree]
    /\ handler_to_url' = [handler_to_url EXCEPT ![r] = a.handler_to_url]
    /\ res' = Call("add_route", r, uri_path, handler, methods, a.err, NoOut)
    /\ hist' = [hist EXCEPT
                    !.added = IF a.err = ""
                              THEN @ \cup {[router |-> r, path |-> uri_path,
                                            handler |-> handler,
                                            methods |-> methods]}
                              ELSE @,
                    !.calls = @ + 1]
    /\ UNCHANGED <<middleware, run, appvars>>

\* router.add_route(uri_path, handler, methods)
AddRoute(r, uri_path, handler, methods) ==
    /\ ~run.active
    /\ AddRouteDone(r, uri_path, handler, methods,
                    add_route(tree[r], handler_to_url[r], uri_path, handler,
                              methods))

\* a variant in which the parent takes the middleware of the attached
\* router along with its routes
AttachDone_with_middleware(base_path, a) ==
    /\ tree' = [tree EXCEPT !["main"] = a.tree, !["sub"] = a.other]
    /\ handler_to_url' = [handler_to_url EXCEPT !["main"] = a.handler_to_url]
    /\ res' = Call("attach", "main", base_path, NoHandler, <<>>, a.err, NoOut)
    /\ hist' = [hist EXCEPT !.calls = @ + 1]
    /\ middleware' = [middleware EXCEPT !["main"] = middleware["sub"] \o @]
    /\ UNCHANGED <<run, appvars>>

\* the state after main.attach(sub, base_path) returned or raised (a)
AttachDone(base_path, a) ==
    /\ tree' = [tree EXCEPT !["main"] = a.tree, !["sub"] = a.other]
    /\ handler_to_url' = [handler_to_url EXCEPT !["main"] = a.handler_to_url]
    /\ res' = Call("attach", "main", base_path, NoHandler, <<>>, a.err, NoOut)
    /\ hist' = [hist EXCEPT !.calls = @ + 1]
    /\ UNCHANGED <<middleware, run, appvars>>

\* main.attach(sub, base_path)
Attach(base_path) ==
    /\ ~run.active
    /\ AttachDone(base_path, attach(tree["main"], handler_to_url["main"],
                                    tree["sub"], base_path))

\* a variant in which the lookup remembers the path it resolved in the
\* reverse index
LookupDone_remember(r, uri_path, method, g) ==
    /\ res' = Call("lookup", r, uri_path, NoHandler, <<method>>, g.err,
                   [handler |-> g.handler, args |-> g.args, pos |-> g.pos])
    /\ handler_to_url' =
           [handler_to_url EXCEPT
               ![r] = IF g.err # "" THEN @
                      ELSE ([name |-> g.handler.name, method |-> method]
                                :> [path |-> uri_path, req |-> {}]) @@ @]
    /\ UNCHANGED <<tree, middleware, hist, run, appvars>>

\* the state after router.handler_and_args_for(uri_path, method) returned or
\* raised (g)
LookupDone(r, uri_path, method, g) ==
    /\ res' = Call("lookup", r, uri_path, NoHandler, <<method>>, g.err,
                   [handler |-> g.handler, args |-> g.args, pos |-> g.pos])
    /\ UNCHANGED <<tree, handler_to_url, middleware, hist, run, appvars>>

\* router.handler_and_args_for(uri_path, method)
Lookup(r, uri_path, method) ==
    /\ ~run.active
    /\ LookupDone(r, uri_path, method,
                  handler_and_args_for(tree[r], uri_path, method))

\* router.static(prefix, local_path)
Static(r, prefix) ==
    /\ ~run.active
    /\ AddRouteDone(r, static_path(prefix), StaticFileHandler(prefix), <<GET>>,
                    static(tree[r], handler_to_url[r], prefix))

\* router.handler_and_args_for(uri_path, method) called for another request
\* while a dispatch awaits its chain
LookupWhile(r, uri_path, method) ==
    /\ run.active
    /\ LookupDone(r, uri_path, method,
                  handler_and_args_for(tree[r], uri_path, method))

\* the state after router.url_for(handler.__name__, method, param_args)
\* returned the path u.val or raised u.err
UrlForDone(r, handler, method, param_args, u) ==
    /\ res' = Call("url_for", r, u.val, handler, <<method>>, u.err,
                   [handler |-> NoHandler, args |-> param_args, pos |-> <<>>])
    /\ UNCHANGED <<tree, handler_to_url, middleware, hist, run, appvars>>

\* router.url_for(handler.__name__, method, param_args): the caller names the
\* handler it wants the path of
UrlFor(r, handler, method, param_args) ==
    /\ ~run.active
    /\ UrlForDone(r, handler, method, param_args,
                  url_for(handler_to_url[r], handler.name, method,
                          param_args))

\* router.register_middleware(mw)
RegisterMiddleware(r, mw) ==
    /\ ~run.active
    /\ middleware' = [middleware EXCEPT ![r] = register_middleware(@, mw)]
    /\ res' = Call("register_middleware", r, <<>>, NoHandler, <<>>, "", NoOut)
    /\ hist' = [hist EXCEPT !.mws[r] = Append(@, mw)]
    /\ UNCHANGED <<tree, handler_to_url, run, appvars>>

\* a variant that reports a failed lookup as the TypeError of a handler None
dispatch_error_no_handler(g) ==
    IF g.handler = NoHandler THEN "TypeError" ELSE ""

\* the exception with which Router.dispatch ends before it awaits anything:
\* that of the lookup (g), or functools.partial's TypeError for a handler None
dispatch_error(g) ==
    IF g.err # "" THEN g.err
    ELSE IF g.handler = NoHandler THEN "TypeError" ELSE ""

\* the state after router.dispatch(request) has looked the handler up (g),
\* bound the parameters and wrapped the middleware around it
DispatchBuilt(r, req, g) ==
    /\ res' = Call("dispatch", r, req.path, NoHandler, <<req.method>>,
                   dispatch_error(g),
                   [handler |-> g.handler, args |-> g.args, pos |-> g.pos])
    /\ run' = IF dispatch_error(g) # "" THEN NoRun
              ELSE [active |-> TRUE, req |-> req,
                    chain |-> dispatch_chain(middleware[r], g.handler, g.args),
                    pc |-> "call", i |-> 1, log |-> <<>>, built |-> 1]
    /\ UNCHANGED <<tree, handler_to_url, middleware, hist, appvars>>

\* router.dispatch(request) up to the await of the outermost callable
DispatchStart(r, req) ==
    /\ ~run.active
    /\ DispatchBuilt(r, req, handler_and_args_for(tree[r], req.path, req.method))

\* the callable at depth run.i of the chain is invoked with the request: a
\* middleware of kind "pass" runs its pre-handler logic and awaits
\* next_handler(request); one of kind "short" returns a response of its own
\* without calling next_handler; the bound handler runs and returns
DispatchEnter ==
    LET e == run.chain[run.i]
    IN  /\ run.active /\ run.pc = "call"
        /\ run' = [run EXCEPT
                     !.log = Append(@, [ev |-> IF e.kind = "handler"
                                               THEN "handler" ELSE "pre",
                                        id |-> e.id, depth |-> run.i,
                                        req |-> run.req, args |-> e.args]),
                     !.i = IF e.kind = "pass" THEN run.i + 1 ELSE run.i,
                     !.pc = IF e.kind = "pass" THEN "call" ELSE "ret"]
        /\ UNCHANGED <<tree, handler_to_url, middleware, res, hist, appvars>>

\* the callable at depth run.i returns: its caller, a middleware that awaited
\* it, runs its post-handler logic; the return of the outermost callable ends
\* the dispatch
DispatchReturn ==
    /\ run.active /\ run.pc = "ret"
    /\ IF run.i = 1
       THEN /\ run' = [run EXCEPT !.active = FALSE, !.pc = "done"]
            /\ res' = [res EXCEPT !.op = "dispatched"]
       ELSE /\ run' = [run EXCEPT
                         !.log = Append(@, [ev |-> "post",
                                            id |-> run.chain[run.i - 1].id,
                                            depth |-> run.i - 1,
                                            req |-> run.req, args |-> <<>>]),
                         !.i = run.i - 1]
            /\ UNCHANGED res
    /\ UNCHANGED <<tree, handler_to_url, middleware, hist, appvars>>

\* the state after a call on the Response object returned or raised (s)
ResponseDone(op, s) ==
    /\ response' = s.response
    /\ reply' = s.channel
    /\ res' = Call(op, "main", <<>>, NoHandler, <<>>, s.err, NoOut)
    /\ UNCHANGED <<tree, handler_to_url, middleware, hist, run,
                   exception_handlers>>

\* response.stream_to(channel, content, done)
StreamTo(content, done) ==
    ResponseDone("stream_to", stream_to(response, reply, content, done))

\* response.send_to(channel)
SendTo == ResponseDone("send_to", send_to(response, reply))

\* the exception with which `await self.router.dispatch(request)` ends: that
\* of the lookup phase of dispatch (g), else the one the chain raised
dispatch_raises(g, chain_raises) ==
    IF dispatch_error(g) # "" THEN dispatch_error(g) ELSE chain_raises

\* app.register_exception_handler(handler.types, handler)
RegisterExceptionHandler(handler) ==
    /\ ~run.active
    /\ exception_handlers' =
           register_exception_handler(exception_handlers, handler)
    /\ res' = Call("register_exception_handler", "main", <<>>, NoHandler,
                   <<>>, "", NoOut)
    /\ UNCHANGED <<tree, handler_to_url, middleware, hist, run, response,
                   reply>>

\* the state after Owlbear.__call__ returned or raised: e is the exception
\* dispatch raised, c what the call did
AppCallDone(req, e, c) ==
    /\ reply' = c.sent.channel
    /\ res' = Call("call", "main", req.path, NoHandler, <<req.method>>,
                   c.sent.err, [raised |-> e, tried |-> c.tried])
    /\ UNCHANGED <<tree, handler_to_url, middleware, hist, run,
                   exception_handlers, response>>

\* await app(message, channels): the request is dispatched; the handler of
\* the route, when the lookup finds one, returns a response or raises
\* chain_raises
AppCall(req, chain_raises) ==
    /\ ~run.active
    /\ AppCallDone(req,
           dispatch_raises(handler_and_args_for(tree["main"], req.path,
                                                req.method), chain_raises),
           app_call(exception_handlers, reply,
               dispatch_raises(handler_and_args_for(tree["main"], req.path,
                                                    req.method),
                               chain_raises)))

---------------------------------------------------------------------------
(* Inputs *)

\* request handlers: test_helpers.make_coroutine gives every handler the
\* __name__ "coroutine"; a handler defined with `async def hello` has its own
H1 == [id |-> 1, name |-> "hello"]

H2 == [id |-> 2, name |-> "coroutine"]

H3 == [id |-> 3, name |-> "coroutine"]

POST == <<"P", "O", "S", "T">>

LowerPost == <<"p", "o", "s", "t">>

---------------------------------------------------------------------------
(* Spec: one router; routes are registered and request paths looked up *)

\* paths registered in Spec
AddPaths ==
    { <<"/">>,                                                              \* /
      <<"/", "f">>,                                                         \* /f
      <<"/", "<", "n", ":", " ", "i", "n", "t", ">">>,                      \* /<n: int>
      <<"/", "<", "n", ":", " ", "i", "n", "t", ">", "/", "<", "b", ">">>,  \* /<n: int>/<b>
      <<"/", "<", "n", ">">>,                                               \* /<n>
      <<"/", "<", "m", ":", " ", "i", "n", "t", ">">> }                     \* /<m: int>

\* request paths looked up in Spec
LookupPaths ==
    { <<"/">>,                       \* /
      <<"/", "f">>,                  \* /f
      <<"/", "7">>,                  \* /7
      <<"/", "a", "b", "c">>,        \* /abc
      <<"/", "*">>,                  \* /*
      <<"/", "1", "3", "/", "g">> }  \* /13/g

\* the `methods` arguments of add_route
MethodLists == {<<GET>>, <<LowerPost>>, <<GET, POST>>, <<>>}

\* the requests looked up in Spec: each path under GET, one under a verb in
\* lower case
Lookups ==
    {[path |-> p, method |-> GET] : p \in LookupPaths}
        \cup {[path |-> <<"/", "f">>, method |-> LowerPost]}

\* registrations made in a behaviour of Spec
MaxAdds == 2

Next ==
    \/ \E p \in AddPaths, h \in {H1, H2}, m \in MethodLists :
           hist.calls < MaxAdds /\ AddRoute("main", p, h, m)
    \/ \E q \in Lookups : Lookup("main", q.path, q.method)

Spec == Init /\ [][Next]_vars

---------------------------------------------------------------------------
(* SpecParam: registrations of paths with ill-formed parameter segments *)

\* paths registered in SpecParam
ParamPaths ==
    { <<"/", "<", ":", " ", "s", "t", "r", ">">>,             \* /<: str>
      <<"/", "<", "n", ":", " ", "f", "o", "o", ">">>,        \* /<n: foo>
      <<"/", "<", "b", ">", "/", "<", "b", ">">>,             \* /<b>/<b>
      <<"/", "<", "n", ":", ">">>,                            \* /<n:>
      <<"/", "<", "n", ":", " ", "i", "n", "t", ">">>,        \* /<n: int>
      <<"/", "f", "/", "<", ">">>,                            \* /f/<>
      <<"/", "*", "/", "<", ":", " ", "s", "t", "r", ">">> }  \* /*/<: str>

\* registrations made in a behaviour of SpecParam
MaxParamAdds == 3

NextParam ==
    \E p \in ParamPaths, h \in {H1, H2}, m \in {<<GET>>, <<LowerPost>>, <<>>} :
        hist.calls < MaxParamAdds /\ AddRoute("main", p, h, m)

SpecParam == Init /\ [][NextParam]_vars

---------------------------------------------------------------------------
(* SpecAttach: a router and a sub-router mounted into it *)

\* paths registered on the parent in SpecAttach
MainPaths ==
    { <<"/">>,                  \* /
      <<"/", "f">>,             \* /f
      <<"/", "<", "b", ">">> }  \* /<b>

\* paths registered on the sub-router in SpecAttach
SubPaths ==
    { <<"/">>,                                           \* /
      <<"/", "<", "n", ":", " ", "i", "n", "t", ">">> }  \* /<n: int>

\* base paths of attach
BasePaths ==
    { <<"f">>,                  \* f
      <<"/", "f", "/">>,        \* /f/
      <<"/", "a", "/", "b">> }  \* /a/b

\* request paths looked up on the parent in SpecAttach
AttachLookups ==
    { <<"/">>,                            \* /
      <<"/", "f">>,                       \* /f
      <<"/", "f", "/", "7">>,             \* /f/7
      <<"/", "a", "/", "b">>,             \* /a/b
      <<"/", "b">>,                       \* /b
      <<"/", "a", "/", "b", "/", "7">> }  \* /a/b/7

\* registration calls (add_route, attach) made in a behaviour of SpecAttach
MaxSetupCalls == 3

NextAttach ==
    \/ \E p \in MainPaths, h \in {H1, H2} :
           hist.calls < MaxSetupCalls /\ AddRoute("main", p, h, <<GET>>)
    \/ \E p \in SubPaths, m \in {<<GET>>, <<LowerPost>>} :
           hist.calls < MaxSetupCalls /\ AddRoute("sub", p, H3, m)
    \/ \E b \in BasePaths : hist.calls < MaxSetupCalls /\ Attach(b)
    \/ \E p \in AttachLookups : Lookup("main", p, GET)
    \/ \E p \in {<<"/">>, <<"/", "7">>} : Lookup("sub", p, GET)

SpecAttach == Init /\ [][NextAttach]_vars

---------------------------------------------------------------------------
(* SpecMw: middleware is registered and requests are dispatched *)

\* middleware: three that await next_handler once, one that returns a
\* response of its own without calling it
MwA == [id |-> "A", kind |-> "pass"]

MwB == [id |-> "B", kind |-> "pass"]

MwC == [id |-> "C", kind |-> "pass"]

MwS == [id |-> "S", kind |-> "short"]

\* paths registered in SpecMw
MwPaths ==
    { <<"/">>,                                           \* /
      <<"/", "<", "n", ":", " ", "i", "n", "t", ">">> }  \* /<n: int>

\* request paths dispatched in SpecMw
MwRequests ==
    { <<"/">>,                  \* /
      <<"/", "7">>,             \* /7
      <<"/", "a", "b", "c">>,   \* /abc
      <<"/", "f", "/", "g">> }  \* /f/g

\* middleware registered in a behaviour of SpecMw
MaxMiddleware == 3

\* routes registered in a behaviour of SpecMw
MaxMwRoutes == 1

NextMw ==
    \/ \E p \in MwPaths :
           hist.calls < MaxMwRoutes /\ AddRoute("main", p, H1, <<GET>>)
    \/ \E mw \in {MwA, MwB, MwC, MwS} :
           /\ Len(middleware["main"]) < MaxMiddleware
           /\ RegisterMiddleware("main", mw)
    \/ \E p \in MwRequests :
           DispatchStart("main", [path |-> p, method |-> GET])
    \/ DispatchEnter
    \/ DispatchReturn

SpecMw == Init /\ [][NextMw]_vars

---------------------------------------------------------------------------
(* SpecLook: routes that share segments, looked up with and without slashes
   and with more segments than they have *)

\* the routes registered in SpecLook
LookRoutes ==
    { [path |-> <<"/", "f">>, handler |-> H1, methods |-> <<GET>>],       \* /f
      [path |-> <<"/", "f", "/">>, handler |-> H2, methods |-> <<GET>>],  \* /f/
      [path |-> <<"/", "f", "/", "g">>, handler |-> H1,
       methods |-> <<POST>>],                                             \* /f/g
      [path |-> <<"/", "f", "/", "<", "x", ">">>, handler |-> H2,
       methods |-> <<GET>>],                                              \* /f/<x>
      [path |-> <<"/", "<", "p", ">", "/", "g">>, handler |-> H3,
       methods |-> <<POST>>],                                             \* /<p>/g
      [path |-> <<"/", "<", "p", ">", "/", "<", "y", ">">>, handler |-> H3,
       methods |-> <<GET>>],                                              \* /<p>/<y>
      [path |-> <<"/", "<", "n", ":", " ", "i", "n", "t", ">">>,
       handler |-> H3, methods |-> <<GET>>] }                             \* /<n: int>

\* the request paths looked up in SpecLook, all under GET
LookRequests ==
    { <<"/", "f">>,                  \* /f
      <<"/", "f", "/">>,             \* /f/
      <<"f">>,                       \* f
      <<"/", "f", "/", "g">>,        \* /f/g
      <<"/", "7", "/", "g">>,        \* /7/g
      <<"/", "7", "/", "g", "/", "h">> }  \* /7/g/h

\* registrations made in a behaviour of SpecLook
MaxLookAdds == 3

NextLook ==
    \/ \E a \in LookRoutes :
           hist.calls < MaxLookAdds
               /\ AddRoute("main", a.path, a.handler, a.methods)
    \/ \E p \in LookRequests : Lookup("main", p, GET)

SpecLook == Init /\ [][NextLook]_vars

---------------------------------------------------------------------------
(* SpecUrl: routes are registered and paths generated from the reverse index *)

\* the routes registered in SpecUrl
UrlRoutes ==
    { [path |-> <<"/">>, handler |-> H1, methods |-> <<GET>>],          \* /
      [path |-> <<"/", "f">>, handler |-> H1,
       methods |-> <<LowerPost>>],                                      \* /f
      [path |-> <<"/", "f", "/", "<", "n", ":", " ", "i", "n", "t", ">">>,
       handler |-> H2, methods |-> <<GET>>],                            \* /f/<n: int>
      [path |-> <<"/", "<", "b", ">", "/", "g">>, handler |-> H3,
       methods |-> <<GET>>],                                            \* /<b>/g
      [path |-> <<"/", "<", "b", ">", "/", "<", "n", ":", " ", "i", "n",
                  "t", ">">>,
       handler |-> H3, methods |-> <<POST>>] }                          \* /<b>/<n: int>

\* the param_args of url_for: none, n, b, both
UrlParams ==
    { <<>>,
      (<<"n">> :> IntVal(7)),
      (<<"b">> :> StrVal(<<"x">>)),
      (<<"n">> :> IntVal(120)) @@ (<<"b">> :> StrVal(<<"x">>)) }

\* the verbs url_for is asked for
UrlVerbs == {GET, POST}

\* registrations made in a behaviour of SpecUrl
MaxUrlAdds == 2

NextUrl ==
    \/ \E a \in UrlRoutes :
           hist.calls < MaxUrlAdds
               /\ AddRoute("main", a.path, a.handler, a.methods)
    \/ \E h \in {H1, H2, H3}, v \in UrlVerbs, pa \in UrlParams :
           UrlFor("main", h, v, pa)

SpecUrl == Init /\ [][NextUrl]_vars

---------------------------------------------------------------------------
(* SpecStatic: routes with an int parameter and static prefixes, looked up
   with segments that do not convert and with segments no route has *)

\* the routes registered in SpecStatic
StaticRoutes ==
    { [path |-> <<"/", "f">>, handler |-> H1, methods |-> <<GET>>],       \* /f
      [path |-> <<"/", "f", "/", "<", "n", ":", " ", "i", "n", "t", ">">>,
       handler |-> H2, methods |-> <<GET>>],                              \* /f/<n: int>
      [path |-> <<"/", "<", "p", ">", "/", "<", "y", ">">>, handler |-> H3,
       methods |-> <<GET>>] }                                             \* /<p>/<y>

\* the prefixes given to Router.static: the root and /f
StaticPrefixes == { <<>>, <<"/", "f">> }

\* the requests looked up in SpecStatic
StaticRequests ==
    { [path |-> <<"/", "f">>, method |-> GET],                            \* /f
      [path |-> <<"/", "f", "/", "7">>, method |-> GET],                  \* /f/7
      [path |-> <<"/", "f", "/", "a", "b", "c">>, method |-> GET],        \* /f/abc
      [path |-> <<"/", "f", "/", "7", "/", "z">>, method |-> GET],        \* /f/7/z
      [path |-> <<"/", "z", "/", "c", "s", "s">>, method |-> POST],       \* /z/css
      [path |-> <<"/", "z">>, method |-> GET] }                           \* /z

\* registrations made in a behaviour of SpecStatic
MaxStaticAdds == 3

NextStatic ==
    \/ \E a \in StaticRoutes :
           hist.calls < MaxStaticAdds
               /\ AddRoute("main", a.path, a.handler, a.methods)
    \/ \E prefix \in StaticPrefixes :
           hist.calls < MaxStaticAdds /\ Static("main", prefix)
    \/ \E q \in StaticRequests : Lookup("main", q.path, q.method)

SpecStatic == Init /\ [][NextStatic]_vars

---------------------------------------------------------------------------
(* SpecChain: routes with several parameters, on a router and on one
   mounted into it under a base that may itself be a parameter *)

\* routes registered on the parent in SpecChain
ChainRoutes ==
    { [path |-> <<"/", "<", "a", ">", "/", "<", "b", ">">>,      \* /<a>/<b>
       handler |-> H1],
      [path |-> <<"/", "<", "a", ">", "/", "<", "a", ">">>,      \* /<a>/<a>
       handler |-> H1],
      [path |-> <<"/", "<", "a", ">", "/", "x", "/", "<", "a", ">">>,
       handler |-> H2],                                          \* /<a>/x/<a>
      [path |-> <<"/", "f", "/", "<", "a", ">">>,                \* /f/<a>
       handler |-> H2] }

\* paths registered on the sub-router in SpecChain
ChainSubPaths ==
    { <<"/", "<", "a", ">">>,                      \* /<a>
      <<"/", "<", "b", ">", "/", "<", "a", ">">>,  \* /<b>/<a>
      <<"/", "<", "b", ">", "/", "<", "b", ">">> } \* /<b>/<b>

\* base paths of attach in SpecChain
ChainBases ==
    { <<"/", "<", "a", ">">>,   \* /<a>
      <<"/", "f">>,             \* /f
      <<"/">> }                 \* /

\* registration calls made in a behaviour of SpecChain
MaxChainCalls == 3

NextChain ==
    \/ \E a \in ChainRoutes :
           hist.calls < MaxChainCalls
               /\ AddRoute("main", a.path, a.handler, <<GET>>)
    \/ \E p \in ChainSubPaths :
           hist.calls < MaxChainCalls /\ AddRoute("sub", p, H3, <<GET>>)
    \/ \E b \in ChainBases : hist.calls < MaxChainCalls /\ Attach(b)

SpecChain == Init /\ [][NextChain]_vars

---------------------------------------------------------------------------
(* SpecMount: a sub-router is mounted and paths are generated from the
   reverse index of the parent and from that of the sub-router *)

\* the routes registered on the sub-router in SpecMount
MountRoutes ==
    { [path |-> <<"/", "x", "/", "<", "n", ":", " ", "i", "n", "t", ">">>,
       handler |-> H3],                            \* /x/<n: int>
      [path |-> <<"/">>, handler |-> H2],          \* /
      [path |-> <<"/", "y">>, handler |-> H1] }    \* /y

\* base paths of attach in SpecMount
MountBases ==
    { <<"f">>,                  \* f
      <<"/", "a", "/", "b">> }  \* /a/b

\* the param_args of url_for in SpecMount
MountParams == { <<>>, (<<"n">> :> IntVal(7)) }

\* registration calls made in a behaviour of SpecMount
MaxMountCalls == 3

NextMount ==
    \/ \E a \in MountRoutes :
           hist.calls < MaxMountCalls
               /\ AddRoute("sub", a.path, a.handler, <<GET>>)
    \/ hist.calls < MaxMountCalls
           /\ AddRoute("main", <<"/", "m">>, H3, <<GET>>)
    \/ \E b \in MountBases : hist.calls < MaxMountCalls /\ Attach(b)
    \/ \E r \in Routers, h \in {H1, H2, H3}, pa \in MountParams :
           UrlFor(r, h, GET, pa)

SpecMount == Init /\ [][NextMount]_vars

---------------------------------------------------------------------------
(* SpecAbort: a sub-router with several routes is mounted into a parent that
   has one of the mounted paths already *)

\* the routes registered in SpecAbort
AbortRoutes ==
    { [router |-> "main", path |-> <<"/", "f", "/", "y">>,    \* /f/y
       handler |-> H1],
      [router |-> "sub", path |-> <<"/">>, handler |-> H2],   \* /
      [router |-> "sub", path |-> <<"/", "y">>,               \* /y
       handler |-> H3] }

\* base paths of attach in SpecAbort
AbortBases ==
    { <<"f">>,    \* f
      <<"/">> }   \* /

\* request paths looked up on the parent in SpecAbort
AbortLookups ==
    { <<"/", "f">>,             \* /f
      <<"/", "f", "/", "y">>,   \* /f/y
      <<"/", "y">> }            \* /y

\* registration calls made in a behaviour of SpecAbort
MaxAbortCalls == 4

NextAbort ==
    \/ \E a \in AbortRoutes :
           hist.calls < MaxAbortCalls
               /\ AddRoute(a.router, a.path, a.handler, <<GET>>)
    \/ \E b \in AbortBases : hist.calls < MaxAbortCalls /\ Attach(b)
    \/ \E p \in AbortLookups : Lookup("main", p, GET)

SpecAbort == Init /\ [][NextAbort]_vars

---------------------------------------------------------------------------
(* SpecConc: requests are dispatched, and looked up before, between and
   while dispatches run *)

\* the requests of SpecConc
ConcRequests ==
    { [path |-> <<"/">>, method |-> GET],                  \* GET /
      [path |-> <<"/", "7">>, method |-> GET],             \* GET /7
      [path |-> <<"/", "a", "b", "c">>, method |-> GET],   \* GET /abc
      [path |-> <<"/", "7">>, method |-> POST] }           \* POST /7

NextConc ==
    \/ \E p \in MwPaths :
           hist.calls < MaxMwRoutes /\ AddRoute("main", p, H1, <<GET>>)
    \/ \E mw \in {MwA, MwS} :
           /\ Len(middleware["main"]) < MaxMiddleware
           /\ RegisterMiddleware("main", mw)
    \/ \E q \in ConcRequests : DispatchStart("main", q)
    \/ \E q \in ConcRequests : Lookup("main", q.path, q.method)
    \/ \E q \in ConcRequests : LookupWhile("main", q.path, q.method)
    \/ DispatchEnter
    \/ DispatchReturn

SpecConc == Init /\ [][NextConc]_vars

---------------------------------------------------------------------------
(* SpecBranch: routes that share their first segments with a request and
   part ways later, so that the lookup leaves a branch it has entered *)

\* the routes registered in SpecBranch
BranchRoutes ==
    { [path |-> <<"/", "f", "/", "<", "a", ">", "/", "x">>,   \* /f/<a>/x
       handler |-> H1],
      [path |-> <<"/", "<", "b", ">", "/", "<", "c", ">", "/", "y">>,
       handler |-> H2],                                       \* /<b>/<c>/y
      [path |-> <<"/", "f", "/", "<", "a", ">">>,             \* /f/<a>
       handler |-> H3],
      [path |-> <<"/", "<", "b", ">", "/", "g">>,             \* /<b>/g
       handler |-> H3] }

\* request paths looked up in SpecBranch
BranchRequests ==
    { <<"/", "f", "/", "1", "/", "y">>,   \* /f/1/y
      <<"/", "f", "/", "1", "/", "x">>,   \* /f/1/x
      <<"/", "z", "/", "1", "/", "y">>,   \* /z/1/y
      <<"/", "f", "/", "g">>,             \* /f/g
      <<"/", "f", "/", "1", "/", "z">> }  \* /f/1/z

\* registrations made in a behaviour of SpecBranch
MaxBranchAdds == 3

NextBranch ==
    \/ \E a \in BranchRoutes :
           hist.calls < MaxBranchAdds
               /\ AddRoute("main", a.path, a.handler, <<GET>>)
    \/ \E p \in BranchRequests : Lookup("main", p, GET)

SpecBranch == Init /\ [][NextBranch]_vars

---------------------------------------------------------------------------
(* SpecAtomic: registrations that fail after part of their work is done,
   with lookups and url_for before and after them *)

\* the routes registered in SpecAtomic
AtomicRoutes ==
    { [path |-> <<"/", "f">>, handler |-> H1,
       methods |-> <<POST>>],                                 \* /f
      [path |-> <<"/", "f">>, handler |-> H2,
       methods |-> <<GET, POST>>],                            \* /f
      [path |-> <<"/", "<", "a", ">", "/", "x", "/", "<", "a", ">">>,
       handler |-> H1, methods |-> <<GET>>],                  \* /<a>/x/<a>
      [path |-> <<"/", "<", "a", ">">>, handler |-> H1,
       methods |-> <<GET>>] }                                 \* /<a>

\* the requests looked up in SpecAtomic
AtomicRequests ==
    { [path |-> <<"/", "f">>, method |-> GET],              \* GET /f
      [path |-> <<"/", "f">>, method |-> POST],             \* POST /f
      [path |-> <<"/", "z", "/", "x">>, method |-> GET] }   \* GET /z/x

\* the param_args of url_for in SpecAtomic
AtomicParams == { <<>>, (<<"a">> :> StrVal(<<"z">>)) }

\* registrations made in a behaviour of SpecAtomic
MaxAtomicAdds == 2

NextAtomic ==
    \/ \E a \in AtomicRoutes :
           hist.calls < MaxAtomicAdds
               /\ AddRoute("main", a.path, a.handler, a.methods)
    \/ \E q \in AtomicRequests : Lookup("main", q.path, q.method)
    \/ \E h \in {H1, H2}, v \in UrlVerbs, pa \in AtomicParams :
           UrlFor("main", h, v, pa)

SpecAtomic == Init /\ [][NextAtomic]_vars

---------------------------------------------------------------------------
(* SpecTrip: paths are generated from the reverse index for routes that
   overlap, to be looked up again *)

\* the routes registered in SpecTrip
TripRoutes ==
    { [path |-> <<"/", "f", "/", "<", "n", ":", " ", "i", "n", "t", ">">>,
       handler |-> H1, methods |-> <<GET>>],                    \* /f/<n: int>
      [path |-> <<"/", "<", "b", ">", "/", "<", "c", ">">>,
       handler |-> H2, methods |-> <<GET>>],                    \* /<b>/<c>
      [path |-> <<"/", "x", "/", "g">>, handler |-> H1,
       methods |-> <<POST>>] }                                  \* /x/g

\* the param_args of url_for in SpecTrip
TripParams ==
    { (<<"n">> :> IntVal(7)),
      (<<"n">> :> StrVal(<<"7">>)),
      (<<"b">> :> StrVal(<<"f">>)) @@ (<<"c">> :> StrVal(<<"7">>)),
      (<<"b">> :> StrVal(<<"z">>)) @@ (<<"c">> :> StrVal(<<"7">>)),
      (<<"b">> :> StrVal(<<"x">>)) @@ (<<"c">> :> StrVal(<<"g">>)),
      (<<"b">> :> StrVal(<<"z">>)) @@ (<<"c">> :> StrVal(<<"a", "/", "b">>)),
      <<>> }

\* registrations made in a behaviour of SpecTrip
MaxTripAdds == 3

NextTrip ==
    \/ \E a \in TripRoutes :
           hist.calls < MaxTripAdds
               /\ AddRoute("main", a.path, a.handler, a.methods)
    \/ \E h \in {H1, H2}, v \in UrlVerbs, pa \in TripParams :
           UrlFor("main", h, v, pa)

SpecTrip == Init /\ [][NextTrip]_vars

---------------------------------------------------------------------------
(* SpecGraft: a sub-router with middleware of its own is mounted into a
   parent with middleware, and requests are dispatched through both *)

\* the requests dispatched in SpecGraft, on the parent and on the sub-router
GraftRequests ==
    { [router |-> "main", path |-> <<"/", "f", "/", "7">>],   \* /f/7
      [router |-> "main", path |-> <<"/", "f">>],             \* /f
      [router |-> "sub", path |-> <<"/", "7">>] }             \* /7

\* the requests looked up on the sub-router in SpecGraft
GraftLookups ==
    { <<"/">>,                  \* /
      <<"/", "7">>,             \* /7
      <<"/", "a", "b", "c">> }  \* /abc

\* registration calls (add_route, attach) made in a behaviour of SpecGraft
MaxGraftCalls == 3

\* middleware registered on each router in SpecGraft
MaxGraftMw == 1

NextGraft ==
    \/ \E p \in SubPaths :
           hist.calls < MaxGraftCalls /\ AddRoute("sub", p, H3, <<GET>>)
    \/ \E b \in {<<"f">>} : hist.calls < MaxGraftCalls /\ Attach(b)
    \/ \E x \in {[router |-> "main", mw |-> MwA],
                 [router |-> "sub", mw |-> MwB],
                 [router |-> "sub", mw |-> MwS]} :
           /\ Len(middleware[x.router]) < MaxGraftMw
           /\ RegisterMiddleware(x.router, x.mw)
    \/ \E q \in GraftRequests :
           DispatchStart(q.router, [path |-> q.path, method |-> GET])
    \/ \E p \in GraftLookups : Lookup("sub", p, GET)
    \/ DispatchEnter
    \/ DispatchReturn

SpecGraft == Init /\ [][NextGraft]_vars

---------------------------------------------------------------------------
(* SpecResponse: one Response object is streamed and sent to a channel *)

\* the contents streamed in SpecResponse
Contents == { <<"a">>, <<"b">> }

\* messages sent on the channel in a behaviour of SpecResponse
MaxMessages == 4

NextResponse ==
    \/ \E content \in Contents, done \in BOOLEAN :
           Len(reply) < MaxMessages /\ StreamTo(content, done)
    \/ Len(reply) < MaxMessages /\ SendTo

SpecResponse == Init /\ [][NextResponse]_vars

---------------------------------------------------------------------------
(* SpecApp: exception handlers are registered on the application and
   requests are served *)

\* the exception handlers registered in SpecApp: the classes each is
\* registered for and the status of the response it returns, 0 for None
ExcHandlers ==
    { [id |-> "nf", types |-> {"RouteNotFound"}, status |-> 404],
      [id |-> "bad", types |-> {"RouteNotFound", "ParameterTypeError"},
       status |-> 400],
      [id |-> "log", types |-> {"Exception"}, status |-> 0],
      [id |-> "any", types |-> {"Exception"}, status |-> 503] }

\* the requests served in SpecApp
AppRequests ==
    { [path |-> <<"/", "7">>, method |-> GET],             \* GET /7
      [path |-> <<"/", "7">>, method |-> POST],            \* POST /7
      [path |-> <<"/", "a", "b", "c">>, method |-> GET],   \* GET /abc
      [path |-> <<"/", "f", "/", "g">>, method |-> GET] }  \* GET /f/g

\* exception handlers registered in a behaviour of SpecApp
MaxExcHandlers == 3

\* requests served in a behaviour of SpecApp
MaxRequests == 2

NextApp ==
    \/ hist.calls < 1
           /\ AddRoute("main", <<"/", "<", "n", ":", " ", "i", "n", "t", ">">>,
                       H1, <<GET>>)
    \/ \E h \in ExcHandlers :
           /\ Len(exception_handlers) < MaxExcHandlers
           /\ RegisterExceptionHandler(h)
    \/ \E q \in AppRequests, chain_raises \in {"", "ValueError"} :
           Len(reply) < MaxRequests /\ AppCall(q, chain_raises)

SpecApp == Init /\ [][NextApp]_vars

---------------------------------------------------------------------------
(* Properties of registration and lookup *)

Verbs == {GET, POST}

\* the path has no parameter segment
NoParams(path) ==
    \A i \in 1..Len(make_uri_parts(path)) :
        ~URI_PARAMETER_RE(make_uri_parts(path)[i]).matched

\* the tree position of a route template: '*' for each parameter segment
TemplatePos(parts) ==
    [i \in 1..Len(parts) |->
        IF URI_PARAMETER_RE(parts[i]).matched THEN STAR ELSE parts[i]]

\* the parameter written as `part` is the one the node carries
SameParam(sa, node) ==
    sa.star_name = node.star_name /\ sa.star_type = node.star_type

\* the template is in the tree at q = TemplatePos(parts): its literal
\* segments are children by their text, each parameter segment is the '*'
\* child with that name and kind
RouteAt(t, parts, q) ==
    /\ q \in DOMAIN t
    /\ \A i \in 1..Len(parts) :
           /\ parts[i] # STAR
           /\ URI_PARAMETER_RE(parts[i]).matched =>
                  SameParam(get_star_attrs(parts[i], <<>>), t[SubSeq(q, 1, i)])

RouteIn(t, parts) == RouteAt(t, parts, TemplatePos(parts))

\* the handler the template has for the verb, NoHandler when it has none
StoredAt(t, parts, q, verb) ==
    IF RouteAt(t, parts, q) THEN MethodsGet(t[q].methods, StrUpper(verb))
    ELSE NoHandler

\* the handler registered for (path, verb), NoHandler when there is none
Stored(t, path, verb) ==
    StoredAt(t, make_uri_parts(path), TemplatePos(make_uri_parts(path)), verb)

\* the step is a call of add_route
IsAddRoute == res'.op = "add_route" /\ hist'.calls = hist.calls + 1

\* the lookup result g is the handler with an empty parameter mapping
Resolved(g, handler) ==
    g.err = "" /\ g.handler = handler /\ g.args = <<>>

\* C1: after add_route(p, h, verbs) succeeded for a path p without parameter
\* segments, the lookup of p under each of the verbs returns h with an empty
\* parameter mapping, whatever else has been registered since
C1_LiteralRouteResolves ==
    \A a \in hist.added :
        NoParams(a.path) =>
            \A i \in 1..Len(a.methods) :
                Resolved(handler_and_args_for(tree[a.router], a.path,
                                              a.methods[i]),
                         a.handler)

\* a literal route was looked up and found while a route with a parameter at
\* the same depth is registered too
C1_Witness ==
    /\ res.op = "lookup" /\ res.err = "" /\ res.out.args = <<>>
    /\ \E a \in hist.added :
           /\ NoParams(a.path) /\ a.path = res.path
           /\ a.handler = res.out.handler
           /\ a.path # <<"/">>
    /\ \E b \in hist.added : ~NoParams(b.path)

\* every parameter node on the way to pos has its name in args, bound to the
\* request segment converted by the parameter's kind
ParamsBound(t, pos, parts, args) ==
    \A i \in 1..Len(pos) :
        pos[i] = STAR =>
            /\ t[SubSeq(pos, 1, i)].star_name \in DOMAIN args
            /\ args[t[SubSeq(pos, 1, i)].star_name]
                   = Convert(t[SubSeq(pos, 1, i)].star_type, parts[i]).val

\* C2: a lookup that matches a route with parameters returns a mapping in
\* which each parameter of the route is bound to its path segment: as a
\* string for `<name>` and `<name: str>`, as int(segment) for `<name: int>`
C2_ParametersBound ==
    (/\ res.op = "lookup" /\ res.err = ""
     /\ res.out.handler # NoHandler) =>
        ParamsBound(tree[res.router], res.out.pos, make_uri_parts(res.path),
                    res.out.args)

\* some verb of the call is among the verbs registered (old)
C7_Taken(old, methods) ==
    \E i \in 1..Len(methods) :
        MethodsGet(old, StrUpper(methods[i])) # NoHandler

\* the verbs of the call are different verbs, none of them registered (old)
C7_OtherVerbs(old, methods) ==
    /\ methods # <<>> /\ old # <<>>
    /\ ~C7_Taken(old, methods)
    /\ \A i, j \in 1..Len(methods) :
           i # j => StrUpper(methods[i]) # StrUpper(methods[j])

\* every verb registered before (old) has the handler it had (new)
C7_Kept(old, new) ==
    \A k \in 1..Len(old) : MethodsGet(new, old[k].method) = old[k].handler

\* an add_route of a path whose template has the handlers `old` before the
\* call and `new` after it
C7_Outcome(old, new, handler, methods, err) ==
    /\ C7_Taken(old, methods) =>
           err = "ConflictingRoutes" /\ C7_Kept(old, new)
    /\ C7_OtherVerbs(old, methods) =>
           /\ err = "" /\ C7_Kept(old, new)
           /\ \A i \in 1..Len(methods) :
                  MethodsGet(new, StrUpper(methods[i])) = handler

\* add_route of a path that is in the tree t0 at q; t1 is the tree after
C7_Registered(t0, t1, parts, q, handler, methods, err) ==
    RouteAt(t0, parts, q) =>
        /\ RouteAt(t1, parts, q)
        /\ C7_Outcome(t0[q].methods, t1[q].methods, handler, methods, err)

C7_Step ==
    IsAddRoute =>
        C7_Registered(tree[res'.router], tree'[res'.router],
                      make_uri_parts(res'.path),
                      TemplatePos(make_uri_parts(res'.path)),
                      res'.handler, res'.methods, res'.err)

\* C7: add_route for a (path, verb) that has a handler fails with
\* ConflictingRoutes and the handler it had stays; add_route of a registered
\* path under verbs it does not have yet succeeds and stores the handler
\* beside the earlier ones
C7_ConflictingRoutes == [][C7_Step]_vars

\* a second registration of a (path, verb) has just failed; the first handler
\* is still the one stored
C7_Witness ==
    /\ res.op = "add_route" /\ res.err = "ConflictingRoutes"
    /\ \E a \in hist.added :
           /\ a.router = res.router /\ a.path = res.path
           /\ a.handler # res.handler
           /\ \E i \in 1..Len(a.methods) :
                  /\ StrUpper(a.methods[i]) = StrUpper(res.methods[1])
                  /\ Stored(tree[a.router], a.path, a.methods[i]) = a.handler

\* a node has at most one '*' child; a '*' child has a name and a kind, any
\* other node has neither
C9_StarChildren ==
    \A r \in Routers :
        \A pos \in DOMAIN tree[r] :
            /\ Cardinality({i \in 1..Len(tree[r][pos].children) :
                               tree[r][pos].children[i] = STAR}) <= 1
            /\ IF pos # <<>> /\ pos[Len(pos)] = STAR
               THEN /\ tree[r][pos].star_name \notin {None, <<>>}
                    /\ tree[r][pos].star_type \in STAR_TYPES
               ELSE /\ tree[r][pos].star_name = None
                    /\ tree[r][pos].star_type = None

\* some parameter segment of the template comes to a node whose '*' child has
\* another name or another kind
C9_Clash(t, parts) ==
    \E i \in 1..Len(parts) :
        /\ URI_PARAMETER_RE(parts[i]).matched
        /\ SubSeq(TemplatePos(parts), 1, i) \in DOMAIN t
        /\ ~SameParam(get_star_attrs(parts[i], <<>>),
                      t[SubSeq(TemplatePos(parts), 1, i)])

C9_Step ==
    /\ \A r \in Routers :
           \A pos \in DOMAIN tree[r] :
               /\ pos \in DOMAIN tree'[r]
               /\ tree'[r][pos].star_name = tree[r][pos].star_name
               /\ tree'[r][pos].star_type = tree[r][pos].star_type
    /\ (/\ IsAddRoute
        /\ res'.methods # <<>>
        /\ C9_Clash(tree[res'.router], make_uri_parts(res'.path))) =>
           res'.err = "BadRouteParameter"

NoPos == << <<"no node">> >>

RECURSIVE Walk(_, _, _)
\* the node a request path leads to from pos: each segment takes the child
\* registered under its text, and the parameter child when there is none
Walk(t, pos, parts) ==
    IF parts = <<>> THEN pos
    ELSE IF Head(parts) # STAR /\ HasChild(t, pos, Head(parts))
    THEN Walk(t, Append(pos, Head(parts)), Tail(parts))
    ELSE IF HasChild(t, pos, STAR)
    THEN Walk(t, Append(pos, STAR), Tail(parts))
    ELSE NoPos

\* a segment of the request stands at an int parameter and is not an integer
C10_NotAnInteger(t, pos, parts) ==
    /\ pos # NoPos
    /\ \E i \in 1..Len(pos) :
           /\ pos[i] = STAR
           /\ t[SubSeq(pos, 1, i)].star_type = INT
           /\ ParseInt(parts[i]).err # ""

\* the int parameters on the way to pos whose segment is an integer are bound
\* to its value; no int parameter is bound to a string
C10_IntsBound(t, pos, parts, args) ==
    \A i \in 1..Len(pos) :
        (pos[i] = STAR /\ t[SubSeq(pos, 1, i)].star_type = INT) =>
            /\ ParseInt(parts[i]).err = "" =>
                   /\ t[SubSeq(pos, 1, i)].star_name \in DOMAIN args
                   /\ args[t[SubSeq(pos, 1, i)].star_name]
                          = IntVal(ParseInt(parts[i]).val)
            /\ t[SubSeq(pos, 1, i)].star_name \in DOMAIN args =>
                   args[t[SubSeq(pos, 1, i)].star_name].kind = "int"

\* C10: the lookup of a path whose segment at an int parameter is not an
\* integer fails with ParameterTypeError; a lookup that returns a handler has
\* bound each int parameter whose segment is an integer to that integer, and
\* no int parameter to a string
C10_IntParameters ==
    res.op = "lookup" =>
        /\ C10_NotAnInteger(tree[res.router],
                            Walk(tree[res.router], <<>>,
                                 make_uri_parts(res.path)),
                            make_uri_parts(res.path)) =>
               res.err = "ParameterTypeError"
        /\ (res.err = "" /\ res.out.handler # NoHandler) =>
               C10_IntsBound(tree[res.router], res.out.pos,
                             make_uri_parts(res.path), res.out.args)

---------------------------------------------------------------------------
(* Properties of the path grammar *)

\* a parameter segment without a name
C8_EmptyName(m) == m.matched /\ m.g1 = None

\* a parameter segment that names a kind other than int and str
C8_UnknownKind(m) ==
    m.matched /\ m.g2 \notin {None, <<>>} /\ m.g2 \notin STAR_TYPES

\* two parameter segments with one name
C8_SameName(m1, m2) ==
    m1.matched /\ m2.matched /\ m1.g1 # None /\ m1.g1 = m2.g1

\* a parameter segment of the path has an empty name or an unknown kind, or
\* two of them have the same name
C8_IllFormed(parts) ==
    \/ \E i \in 1..Len(parts) :
           \/ C8_EmptyName(URI_PARAMETER_RE(parts[i]))
           \/ C8_UnknownKind(URI_PARAMETER_RE(parts[i]))
    \/ \E i, j \in 1..Len(parts) :
           i < j /\ C8_SameName(URI_PARAMETER_RE(parts[i]),
                                URI_PARAMETER_RE(parts[j]))

---------------------------------------------------------------------------
(* Properties of attach *)

\* the path at which a route of the attached router is expected: base + path
Mounted(base_path, path) ==
    <<"/">> \o Strip(base_path, {"/"}) \o path

\* the step is a call of attach
IsAttach == res'.op = "attach" /\ hist'.calls = hist.calls + 1

\* the parent has route a of the attached router under base_path: the template
\* base + path is in its tree with the handler, and for a path without
\* parameters the lookup of base + path returns the handler
C5_Reached(t, base_path, a) ==
    \A i \in 1..Len(a.methods) :
        /\ Stored(t, Mounted(base_path, a.path), a.methods[i]) = a.handler
        /\ NoParams(a.path) =>
               Resolved(handler_and_args_for(t, Mounted(base_path, a.path),
                                             a.methods[i]),
                        a.handler)

\* C5: after a successful attach(sub, base), every route registered on sub at
\* path p for verb v is resolved by the parent at base + p for verb v to the
\* same handler, with the same parameter names and kinds
C5_MountedRoutes ==
    (res.op = "attach" /\ res.err = "") =>
        \A a \in hist.added :
            a.router = "sub" => C5_Reached(tree["main"], res.path, a)

\* a request that had a handler (g0) has the same handler and parameters (g1)
C6_Same(g0, g1) ==
    (g0.err = "" /\ g0.handler # NoHandler) =>
        (g1.err = "" /\ g1.handler = g0.handler /\ g1.args = g0.args)

\* the same, for a request that was resolved through literal children only
C6_SameLiteral(g0, g1) ==
    (g0.err = "" /\ g0.handler # NoHandler /\ STAR \notin Range(g0.pos)) =>
        (g1.err = "" /\ g1.handler = g0.handler /\ g1.args = g0.args)

\* every node of t0 is a node of t1 with the same parameter and with every
\* handler it had
C6_RoutesKept(t0, t1) ==
    \A pos \in DOMAIN t0 :
        /\ pos \in DOMAIN t1
        /\ t1[pos].star_name = t0[pos].star_name
        /\ t1[pos].star_type = t0[pos].star_type
        /\ \A k \in 1..Len(t0[pos].methods) :
               MethodsGet(t1[pos].methods, t0[pos].methods[k].method)
                   = t0[pos].methods[k].handler

C6_StepAsStated ==
    (IsAttach /\ res'.err = "") =>
        \A p \in AttachLookups, v \in Verbs :
            C6_Same(handler_and_args_for(tree["main"], p, v),
                    handler_and_args_for(tree'["main"], p, v))

\* C6 as it is stated: every request the parent resolved to a handler before
\* a successful attach resolves to the same handler with the same parameters
\* after it
C6_EveryRequestKept == [][C6_StepAsStated]_vars

C6_Step ==
    (IsAttach /\ res'.err = "") =>
        /\ C6_RoutesKept(tree["main"], tree'["main"])
        /\ \A p \in AttachLookups, v \in Verbs :
               C6_SameLiteral(handler_and_args_for(tree["main"], p, v),
                              handler_and_args_for(tree'["main"], p, v))

\* C6: a successful attach removes and replaces no route of the parent (each
\* template keeps its parameters and, for each verb, its handler), and every
\* request the parent resolved through literal segments only resolves to the
\* same handler after the attach
C6_RoutesNotClobbered == [][C6_Step]_vars

\* an attach has succeeded on a parent that had a route of its own, which is
\* still resolved, and the route of the attached router is in the parent
C6_Witness ==
    /\ res.op = "attach" /\ res.err = ""
    /\ \E a \in hist.added :
           /\ a.router = "main" /\ NoParams(a.path)
           /\ Resolved(handler_and_args_for(tree["main"], a.path, GET),
                       a.handler)
    /\ \E b \in hist.added :
           /\ b.router = "sub"
           /\ Stored(tree["main"], Mounted(res.path, b.path), b.methods[1])
                  = b.handler

---------------------------------------------------------------------------
(* Properties of dispatch *)

\* every middleware of the list awaits next_handler once
AllPass(mws) == \A k \in 1..Len(mws) : mws[k].kind = "pass"

\* the log of a dispatch through middleware mws, given in the order of their
\* registration, to the handler: pre-handler logic first to last, the
\* handler, post-handler logic last to first
Onion(mws, handler) ==
    [k \in 1..(2 * Len(mws) + 1) |->
        IF k <= Len(mws) THEN [ev |-> "pre", id |-> mws[k].id]
        ELSE IF k = Len(mws) + 1 THEN [ev |-> "handler", id |-> handler.id]
        ELSE [ev |-> "post", id |-> mws[2 * Len(mws) + 2 - k].id]]

\* what ran, in order
Events(log) == [k \in 1..Len(log) |-> [ev |-> log[k].ev, id |-> log[k].id]]

\* C3: with middleware registered in the order A, B, C, each awaiting
\* next_handler once, a dispatch runs the pre-handler logic of A, B, C in that
\* order, then the handler, then the post-handler logic of C, B, A; so for
\* any number of middleware
C3_OnionOrder ==
    (res.op = "dispatched" /\ AllPass(hist.mws[res.router])) =>
        Events(run.log) = Onion(hist.mws[res.router], res.out.handler)

\* a dispatch through A, B, C, registered in that order, has returned
C3_Witness ==
    /\ res.op = "dispatched"
    /\ hist.mws[res.router] = <<MwA, MwB, MwC>>
    /\ Len(run.log) = 7

\* the entries of the log that are invocations of the callable at the depth
Invocations(log, depth) ==
    {k \in 1..Len(log) : log[k].depth = depth /\ log[k].ev # "post"}

\* the entries of the log that are runs of the handler
HandlerRuns(log) == {k \in 1..Len(log) : log[k].ev = "handler"}

\* C4: a dispatch of a registered (path, verb) builds the chain once and
\* invokes its outermost callable once; when every middleware awaits
\* next_handler once the handler runs once, with the request and the
\* parameters taken from the path
C4_HandlerOnce ==
    /\ run.pc # "idle" =>
           /\ run.built = 1
           /\ Cardinality(Invocations(run.log, 1)) <= 1
           /\ Cardinality(HandlerRuns(run.log)) <= 1
    /\ res.op = "dispatched" =>
           /\ Cardinality(Invocations(run.log, 1)) = 1
           /\ AllPass(middleware[res.router]) =>
                  /\ Cardinality(HandlerRuns(run.log)) = 1
                  /\ \A k \in HandlerRuns(run.log) :
                         /\ run.log[k].id = res.out.handler.id
                         /\ run.log[k].req = run.req
                         /\ run.log[k].req.path = res.path
                         /\ run.log[k].args = res.out.args

\* a dispatch through two middleware to a route with an int parameter has
\* returned; the handler ran with the parameter
C4_Witness ==
    /\ res.op = "dispatched"
    /\ Len(middleware[res.router]) = 2 /\ AllPass(middleware[res.router])
    /\ \E k \in HandlerRuns(run.log) :
           /\ DOMAIN run.log[k].args = {<<"n">>}
           /\ run.log[k].args[<<"n">>] = IntVal(7)

---------------------------------------------------------------------------
(* Properties of the search order of lookup *)

\* the segment can be taken by the parameter child of pos: there is one and
\* the segment converts to its kind
Converts(t, pos, key) ==
    /\ HasChild(t, pos, STAR)
    /\ t[Append(pos, STAR)].star_type = INT => ParseInt(key).err = ""

RECURSIVE Follow(_, _, _)
\* the nodes the request segments lead to from pos, taking at each node the
\* child registered under the segment's text or the parameter child
Follow(t, pos, parts) ==
    IF parts = <<>> THEN {pos}
    ELSE (IF HasChild(t, pos, Head(parts))
          THEN Follow(t, Append(pos, Head(parts)), Tail(parts)) ELSE {})
         \cup
         (IF Converts(t, pos, Head(parts))
          THEN Follow(t, Append(pos, STAR), Tail(parts)) ELSE {})

RECURSIVE TypeClash(_, _, _)
\* on some way the segments can take from pos, a segment that is not an
\* integer stands at an int parameter
TypeClash(t, pos, parts) ==
    /\ parts # <<>>
    /\ \/ HasChild(t, pos, STAR) /\ ~Converts(t, pos, Head(parts))
       \/ HasChild(t, pos, Head(parts))
              /\ TypeClash(t, Append(pos, Head(parts)), Tail(parts))
       \/ Converts(t, pos, Head(parts))
              /\ TypeClash(t, Append(pos, STAR), Tail(parts))

\* no node of the tree has a '__static__' child
NoStatic(t) == \A q \in DOMAIN t : q = <<>> \/ q[Len(q)] # STATIC

\* the path has more segments than the routes it follows: no way through the
\* tree takes all its segments, none is stopped by a conversion
OverLong(t, parts) ==
    Follow(t, <<>>, parts) = {} /\ ~TypeClash(t, <<>>, parts) /\ NoStatic(t)

VerbAbsent(t, parts, verb) ==
    /\ Follow(t, <<>>, parts) # {}
    /\ \A q \in Follow(t, <<>>, parts) :
           MethodsGet(t[q].methods, StrUpper(verb)) = NoHandler
    /\ ~TypeClash(t, <<>>, parts)

\* C12: the lookup of a path that exists in the tree without a handler for
\* the request's verb fails with RouteNotFound, as the lookup of a path that
\* does not exist does
C12_VerbAbsentNotFound ==
    res.op = "lookup" =>
        (VerbAbsent(tree[res.router], make_uri_parts(res.path),
                    res.methods[1]) =>
             res.err = "RouteNotFound")

---------------------------------------------------------------------------
(* Properties of the reverse index *)

\* the verbs of a registration as the tree stores them
UpperAll(methods) == {StrUpper(methods[i]) : i \in 1..Len(methods)}

\* the successful registrations of the handler (the function object, not its
\* name) under the verb in router r
RegisteredFor(r, handler, verb) ==
    {a \in hist.added :
        a.router = r /\ a.handler = handler /\ verb \in UpperAll(a.methods)}

\* the names of the parameters of a route path
ParamNames(parts) ==
    {URI_PARAMETER_RE(parts[i]).g1 :
        i \in {j \in 1..Len(parts) : URI_PARAMETER_RE(parts[j]).matched}}

\* a segment of the generated path: a literal as it is, a parameter as the
\* string form of its value
FilledSegment(part, param_args) ==
    IF URI_PARAMETER_RE(part).matched
    THEN ValueStr(param_args[URI_PARAMETER_RE(part).g1])
    ELSE part

RECURSIVE FilledFrom(_, _, _)
\* the segments from the i-th on, each after a slash
FilledFrom(parts, i, param_args) ==
    IF i > Len(parts) THEN <<>>
    ELSE <<"/">> \o FilledSegment(parts[i], param_args)
             \o FilledFrom(parts, i + 1, param_args)

\* the path of the route with its parameters filled in; the root route is "/"
Filled(parts, param_args) ==
    IF Len(parts) = 1 THEN <<"/">> ELSE FilledFrom(parts, 2, param_args)

\* C13: url_for for a registered (handler, verb), given exactly the names of
\* the route's parameters, returns the route's path with each parameter
\* segment replaced by the string form of its value and the literal segments
\* unchanged
C13_UrlForRoute ==
    res.op = "url_for" =>
        \A a \in RegisteredFor(res.router, res.handler, res.methods[1]) :
            (/\ RegisteredFor(res.router, res.handler, res.methods[1]) = {a}
             /\ DOMAIN res.out.args = ParamNames(make_uri_parts(a.path))) =>
                /\ res.err = ""
                /\ res.path = Filled(make_uri_parts(a.path), res.out.args)

\* C14: url_for fails with BadHandlerParameters whenever the names supplied
\* differ from the names the route requires, a name missing or a name extra
C14_BadHandlerParameters ==
    res.op = "url_for" =>
        \A a \in RegisteredFor(res.router, res.handler, res.methods[1]) :
            (/\ RegisteredFor(res.router, res.handler, res.methods[1]) = {a}
             /\ DOMAIN res.out.args # ParamNames(make_uri_parts(a.path))) =>
                res.err = "BadHandlerParameters"

\* C15: url_for for a (handler, verb) that no successful registration made
\* fails with HandlerNameNotFound, whatever parameters are supplied
C15_HandlerNameNotFound ==
    res.op = "url_for" =>
        (RegisteredFor(res.router, res.handler, res.methods[1]) = {} =>
             res.err = "HandlerNameNotFound")

\* the registration of a handler leaves what url_for returns for every other
\* handler registered under one of its verbs as it was
C16_Step ==
    (IsAddRoute /\ res'.err = "") =>
        \A a \in hist.added, pa \in UrlParams :
            \A v \in UpperAll(a.methods) \cap UpperAll(res'.methods) :
                (a.router = res'.router /\ a.handler # res'.handler) =>
                    url_for(handler_to_url'[a.router], a.handler.name, v, pa)
                        = url_for(handler_to_url[a.router], a.handler.name,
                                  v, pa)

\* C16: the reverse index is keyed by the handler's identity and the verb:
\* registering another handler at another path under the same verb never
\* changes what url_for returns for the first; two handlers share no entry
C16_KeyedByIdentity == [][C16_Step]_vars

---------------------------------------------------------------------------
(* Properties of path normalisation *)

\* the path without its leading slash and without its trailing slash
Core(p) ==
    LET q == IF p # <<>> /\ Head(p) = "/" THEN Tail(p) ELSE p
    IN  IF q # <<>> /\ q[Len(q)] = "/" THEN SubSeq(q, 1, Len(q) - 1) ELSE q

\* the path written with and without a leading and a trailing slash
SlashForms(p) ==
    {x \o Core(p) \o y : x \in {<<>>, <<"/">>}, y \in {<<>>, <<"/">>}}

\* every form of a registered path without parameters resolves, under each
\* of its verbs, to the handler registered under the form that was used
C17_Lookup ==
    \A a \in hist.added :
        NoParams(a.path) =>
            \A q \in SlashForms(a.path), i \in 1..Len(a.methods) :
                Resolved(handler_and_args_for(tree[a.router], q,
                                              a.methods[i]),
                         a.handler)

\* an add_route of a path of which another form is registered under one of
\* the verbs fails with ConflictingRoutes
C17_Step ==
    IsAddRoute =>
        ((\E a \in hist.added :
              /\ a.router = res'.router
              /\ Core(a.path) = Core(res'.path)
              /\ UpperAll(a.methods) \cap UpperAll(res'.methods) # {})
         => res'.err = "ConflictingRoutes")

\* C17: leading and trailing slashes are insignificant: registering a path
\* and then the same path with or without the trailing slash under the same
\* verb fails with ConflictingRoutes, and the lookup of either form resolves
\* to the handler registered under the other
C17_SlashesInsignificant == []C17_Lookup /\ [][C17_Step]_vars

\* /f/ was registered after /f, or /f after /f/, and refused
C17_Witness ==
    /\ res.op = "add_route" /\ res.err = "ConflictingRoutes"
    /\ \E a \in hist.added :
           a.path # res.path /\ Core(a.path) = Core(res.path)

---------------------------------------------------------------------------
(* Properties of a registration without verbs *)

\* an add_route without verbs raises ValueError and changes neither the tree
\* nor the reverse index
C18_Step ==
    (IsAddRoute /\ res'.methods = <<>>) =>
        /\ res'.err = "ValueError"
        /\ tree' = tree
        /\ handler_to_url' = handler_to_url

\* C18: add_route with an empty verbs collection fails with ValueError and
\* registers nothing: the nodes and handlers of the tree and the reverse
\* index are after the call what they were before it
C18_EmptyVerbs == [][C18_Step]_vars

\* a path that is not in the tree was given without verbs to a router that
\* has routes, and refused
C18_Witness ==
    /\ res.op = "add_route" /\ res.methods = <<>> /\ res.err = "ValueError"
    /\ hist.added # {}
    /\ TemplatePos(make_uri_parts(res.path)) \notin DOMAIN tree[res.router]

---------------------------------------------------------------------------
(* Properties of the priority of literal over parameter children *)

\* the routes registered for the verb that the request matches, each as the
\* node it ends at
Routes(t, parts, verb) ==
    {q \in Follow(t, <<>>, parts) :
        MethodsGet(t[q].methods, StrUpper(verb)) # NoHandler}

\* the first place where two nodes of the same depth part
FirstDiff(q1, q2) ==
    CHOOSE i \in 1..Len(q1) :
        q1[i] # q2[i] /\ \A j \in 1..(i - 1) : q1[j] = q2[j]

\* where the two routes part, q1 has the literal segment and q2 the parameter
LiteralBefore(q1, q2) == q1 # q2 /\ q2[FirstDiff(q1, q2)] = STAR

\* the route that has the literal segment wherever it parts from another
MostLiteral(routes) ==
    CHOOSE q \in routes : \A r \in routes \ {q} : LiteralBefore(q, r)

\* the names of the parameters on the way to the node q
BoundAlong(t, q) ==
    {t[SubSeq(q, 1, i)].star_name : i \in {j \in 1..Len(q) : q[j] = STAR}}

\* the lookup returned the handler of the route q; of each other route the
\* parameter at the place where it parts from q is not bound
LiteralWins(t, routes, q, verb) ==
    /\ res.err = ""
    /\ res.out.pos = q
    /\ res.out.handler = MethodsGet(t[q].methods, StrUpper(verb))
    /\ \A r \in routes \ {q} :
           t[SubSeq(r, 1, FirstDiff(q, r))].star_name
               \notin (DOMAIN res.out.args \ BoundAlong(t, q))

\* C19: at every node the literal child has priority over the parameter
\* child: when the request matches a route with a literal segment and a
\* route with a parameter at the same position, both registered for the
\* request's verb, the lookup returns the handler of the literal route and
\* does not bind the parameter
C19_LiteralPriority ==
    res.op = "lookup" =>
        ((\E q1, q2 \in Routes(tree[res.router], make_uri_parts(res.path),
                               res.methods[1]) : LiteralBefore(q1, q2))
         => LiteralWins(tree[res.router],
                        Routes(tree[res.router], make_uri_parts(res.path),
                               res.methods[1]),
                        MostLiteral(Routes(tree[res.router],
                                           make_uri_parts(res.path),
                                           res.methods[1])),
                        res.methods[1]))

\* at the i-th segment the route q takes the parameter child although the
\* literal child for the segment exists, and no way through the literal
\* child takes the segments that remain
BacktracksAt(t, parts, q, i) ==
    /\ q[i] = STAR /\ parts[i] # STAR
    /\ HasChild(t, SubSeq(q, 1, i - 1), parts[i])
    /\ Follow(t, Append(SubSeq(q, 1, i - 1), parts[i]),
              SubSeq(parts, i + 1, Len(parts))) = {}

\* C20: when the literal child for a segment exists but the lookup below it
\* fails with RouteNotFound for the segments that remain, the parameter child
\* is tried with the same segment, and the lookup succeeds if the route with
\* the parameter matches the request
C20_Backtracks ==
    res.op = "lookup" =>
        \A q \in Routes(tree[res.router], make_uri_parts(res.path),
                        res.methods[1]) :
            ((\E i \in 1..Len(q) :
                  BacktracksAt(tree[res.router], make_uri_parts(res.path),
                               q, i))
             /\ ~TypeClash(tree[res.router], <<>>, make_uri_parts(res.path)))
            => (res.err = "" /\ res.out.handler # NoHandler)

---------------------------------------------------------------------------
(* Properties of the failures of lookup *)

RECURSIVE Reaches(_, _, _)
\* some alternative of the search from pos ends without RouteNotFound: the
\* segments lead to a node, or a node on the way has a '__static__' child
Reaches(t, pos, parts) ==
    \/ parts = <<>>
    \/ HasChild(t, pos, Head(parts))
           /\ Reaches(t, Append(pos, Head(parts)), Tail(parts))
    \/ Converts(t, pos, Head(parts))
           /\ Reaches(t, Append(pos, STAR), Tail(parts))
    \/ HasChild(t, pos, STATIC)

RECURSIVE ClashFirst(_, _, _)
\* the search from pos comes to a parameter child whose kind the segment does
\* not convert to before it comes to an end: below the literal child, or,
\* when nothing is found below the literal child, at the parameter child of
\* pos or below it
ClashFirst(t, pos, parts) ==
    /\ parts # <<>>
    /\ \/ HasChild(t, pos, Head(parts))
              /\ ClashFirst(t, Append(pos, Head(parts)), Tail(parts))
       \/ /\ ~(HasChild(t, pos, Head(parts))
                   /\ Reaches(t, Append(pos, Head(parts)), Tail(parts)))
          /\ HasChild(t, pos, STAR)
          /\ \/ ~Converts(t, pos, Head(parts))
             \/ ClashFirst(t, Append(pos, STAR), Tail(parts))

\* C21: a ParameterTypeError raised while a segment is converted for a
\* parameter child leaves the whole lookup at once: the '__static__' child
\* of the node is not tried and no enclosing node falls back to its
\* parameter or static child, even when another route matches the path
C21_TypeErrorPropagates ==
    res.op = "lookup" =>
        (ClashFirst(tree[res.router], <<>>, make_uri_parts(res.path)) =>
             res.err = "ParameterTypeError")

\* /f/abc was looked up while /f/<n: int> is registered, with another route
\* that matches the path and a '__static__' child in the tree
C21_Witness ==
    /\ res.op = "lookup" /\ res.err = "ParameterTypeError"
    /\ Routes(tree[res.router], make_uri_parts(res.path), res.methods[1])
           # {}
    /\ ~NoStatic(tree[res.router])

\* a sequence without its last element
Front(s) == SubSeq(s, 1, Len(s) - 1)

\* the segments of the request left at the node q
RestAt(parts, q) == SubSeq(parts, Len(q) + 1, Len(parts))

\* below the literal child of q and below its parameter child the search for
\* the segments left ends in RouteNotFound
BothFail(t, q, rest) ==
    /\ rest # <<>>
    /\ ~(HasChild(t, q, Head(rest))
             /\ Reaches(t, Append(q, Head(rest)), Tail(rest)))
    /\ ~(Converts(t, q, Head(rest))
             /\ Reaches(t, Append(q, STAR), Tail(rest)))
    /\ ~ClashFirst(t, q, rest)

\* the lookup read the methods of a '__static__' child
StaticConsulted ==
    /\ res.op = "lookup" /\ res.err = ""
    /\ res.out.pos # <<>>
    /\ res.out.pos[Len(res.out.pos)] = STATIC

\* the lookup of res, made on the tree t with the segments parts, is as C22
\* says
C22_Lookup(t, parts) ==
    /\ StaticConsulted =>
           /\ BothFail(t, Front(res.out.pos), RestAt(parts, Front(res.out.pos)))
           /\ res.out.handler = MethodsGet(t[res.out.pos].methods, GET)
           /\ res.out.args = <<>>
    /\ (res.op = "lookup" /\ Follow(t, <<>>, parts) = {}
            /\ ~TypeClash(t, <<>>, parts) /\ Reaches(t, <<>>, parts)) =>
           StaticConsulted

---------------------------------------------------------------------------
(* Properties of the registered routes over time *)

C23_Step ==
    (IsAddRoute \/ IsAttach) =>
        \A r \in DOMAIN tree : C6_RoutesKept(tree[r], tree'[r])

\* C23: registered routes are permanent: once a handler is stored for a
\* path template and a verb, no later add_route or attach, whether it
\* succeeds or fails, replaces or removes it
C23_RoutesPermanent == [][C23_Step]_vars

\* an attach has failed with ConflictingRoutes, and the routes of the parent
\* and of the router that was to be attached are stored as before
C23_Witness ==
    /\ res.op = "attach" /\ res.err = "ConflictingRoutes"
    /\ Stored(tree["main"], <<"/", "f">>, GET) \in {H1, H2}
    /\ Stored(tree["sub"], <<"/">>, GET) = H3

\* the names of the parameters on the way from the root to the node q
ChainNames(t, q) ==
    [i \in {k \in 1..Len(q) : t[SubSeq(q, 1, k)].star_name # None} |->
        t[SubSeq(q, 1, i)].star_name]

\* no parameter name stands twice on the way from the root to any node
DistinctChains(t) ==
    \A q \in DOMAIN t :
        \A i, j \in DOMAIN ChainNames(t, q) :
            i # j => ChainNames(t, q)[i] # ChainNames(t, q)[j]

\* C24: in every state the tree of a router can reach, failed calls
\* included, the parameter names on the way from the root to any node are
\* pairwise distinct
C24_DistinctNames == \A r \in DOMAIN tree : DistinctChains(tree[r])

\* a registration of a path that names a parameter twice has just failed,
\* and the tree has a node below two parameters
C24_Witness ==
    /\ res.op \in {"add_route", "attach"}
    /\ res.err = "BadRouteParameter"
    /\ \E q \in DOMAIN tree["main"] :
           Cardinality(DOMAIN ChainNames(tree["main"], q)) = 2

---------------------------------------------------------------------------
(* Properties of dispatch *)

LookupErrors == {"RouteNotFound", "ParameterTypeError"}

\* the lookup that the dispatch recorded in res makes
C25_Looked ==
    handler_and_args_for(tree[res.router], res.path, res.methods[1])

\* C25: RouteNotFound and ParameterTypeError arise in the lookup phase of
\* dispatch only, before the chain is built: when the lookup fails dispatch
\* raises the error of the lookup, and no middleware and no handler has been
\* invoked
C25_LookupPhaseOnly ==
    res.op \in {"dispatch", "dispatched"} =>
        /\ C25_Looked.err \in LookupErrors =>
               /\ res.op = "dispatch" /\ res.err = C25_Looked.err
               /\ ~run.active /\ run.built = 0 /\ run.log = <<>>
        /\ res.err \in LookupErrors => res.err = C25_Looked.err

\* a dispatch of /abc against /<n: int> has raised ParameterTypeError on a
\* router with two middleware
C25_Witness ==
    /\ res.op = "dispatch" /\ res.err = "ParameterTypeError"
    /\ Len(middleware[res.router]) = 2
    /\ run.log = <<>>

\* the first middleware, in the order of registration, that returns without
\* awaiting next_handler
FirstShort(mws) ==
    CHOOSE k \in 1..Len(mws) :
        mws[k].kind = "short" /\ \A j \in 1..(k - 1) : mws[j].kind = "pass"

\* the log of a dispatch that the k-th middleware cuts short: pre-handler
\* logic of the first k middleware, post-handler logic of those before the
\* k-th, last to first
ShortCut(mws, k) ==
    [i \in 1..(2 * k - 1) |->
        IF i <= k THEN [ev |-> "pre", id |-> mws[i].id]
        ELSE [ev |-> "post", id |-> mws[2 * k - i].id]]

\* C26: a middleware that returns without invoking next_handler cuts the
\* dispatch short: the middleware registered after it and the handler are
\* not invoked, the middleware itself is invoked exactly once, and its
\* response goes back through the middleware registered before it
C26_ShortCircuit ==
    (res.op = "dispatched" /\ ~AllPass(hist.mws[res.router])) =>
        /\ Events(run.log)
               = ShortCut(hist.mws[res.router], FirstShort(hist.mws[res.router]))
        /\ HandlerRuns(run.log) = {}
        /\ Cardinality(Invocations(run.log, FirstShort(hist.mws[res.router])))
               = 1

\* a dispatch through A, S, C, registered in that order, has returned, S
\* being the one that does not call next_handler
C26_Witness ==
    /\ res.op = "dispatched"
    /\ hist.mws[res.router] = <<MwA, MwS, MwC>>
    /\ Len(run.log) = 3

---------------------------------------------------------------------------
(* Properties of mounting *)

\* url_for on the index h2u returns, for the handler of route a and the
\* parameters pa, the path `path` filled in
C27_Returns(h2u, a, v, pa, path) ==
    /\ url_for(h2u, a.handler.name, v, pa).err = ""
    /\ url_for(h2u, a.handler.name, v, pa).val
           = Filled(make_uri_parts(path), pa)

C27_Step ==
    (IsAttach /\ res'.err = "") =>
        \A a \in hist.added, pa \in MountParams :
            (a.router = "sub" /\ DOMAIN pa = ParamNames(make_uri_parts(a.path)))
                => \A v \in UpperAll(a.methods) :
                       /\ C27_Returns(handler_to_url'["main"], a, v, pa,
                                      Mounted(res'.path, a.path))
                       /\ C27_Returns(handler_to_url'["sub"], a, v, pa, a.path)

\* C27: after a successful parent.attach(sub, base) the reverse index of the
\* parent has, for every (handler, verb) of sub, an entry whose template is
\* base followed by the template of the route in sub, so that url_for on the
\* parent returns the mounted path, while url_for on sub still returns the
\* path without the base
C27_MountedIndex == [][C27_Step]_vars

\* the routes merge_with took from the listing L before the first one that
\* is in the tree t already, under its verb
MergedFirst(t, L) ==
    {i \in 1..Len(L) :
        \A j \in 1..i : Stored(t, L[j].path, L[j].method) = NoHandler}

\* in the tree t1 the routes that the merge of the listing L into t0
\* reached before the conflict are resolved
C28_Kept(t0, t1, L) ==
    \A i \in MergedFirst(t0, L) :
        /\ Stored(t1, L[i].path, L[i].method) = L[i].handler
        /\ Resolved(handler_and_args_for(t1, L[i].path, L[i].method),
                    L[i].handler)

C28_Step ==
    (IsAttach /\ res'.err = "ConflictingRoutes") =>
        C28_Kept(tree["main"], tree'["main"],
                 list_handlers(tree'["sub"], <<>>, None))

\* C28: when attach aborts with ConflictingRoutes the part of the merge that
\* was done is not rolled back: the routes of sub that were merged before
\* the conflicting one stay resolvable in the tree of the parent
C28_NoRollback == [][C28_Step]_vars

\* attach under f has failed on /f/y, which the parent had; the root route
\* of sub, merged before it, is in the tree of the parent at /f
C28_Witness ==
    /\ res.op = "attach" /\ res.err = "ConflictingRoutes"
    /\ Stored(tree["main"], <<"/", "f", "/", "y">>, GET) = H1
    /\ Stored(tree["main"], <<"/", "f">>, GET) = H2

\* the step is a lookup, or a step of a dispatch: its lookup and the making
\* of the chain, the entry of a callable of the chain, or a return
IsRead ==
    /\ res'.op \in {"lookup", "dispatch", "dispatched"}
    /\ hist' = hist

C29_Step ==
    IsRead =>
        /\ UNCHANGED <<tree, middleware, handler_to_url>>
        /\ (res'.op = "lookup" /\ run' = run) =>
               /\ res'.err
                      = handler_and_args_for(tree[res'.router], res'.path,
                                             res'.methods[1]).err
               /\ res'.err = "" =>
                      /\ res'.out.handler
                             = handler_and_args_for(tree[res'.router],
                                   res'.path, res'.methods[1]).handler
                      /\ res'.out.args
                             = handler_and_args_for(tree[res'.router],
                                   res'.path, res'.methods[1]).args

---------------------------------------------------------------------------
(* Properties of the parameters a lookup returns *)

\* the names of the parameters of the route that ends at the node q
RouteNames(t, q) ==
    {ChainNames(t, q)[i] : i \in DOMAIN ChainNames(t, q)}

\* C30: the parameter map that a successful lookup returns has exactly the
\* names bound along the route that matched in the end; a parameter bound in
\* a branch the lookup left again is not in it
C30_ArgsOfMatchedRoute ==
    (res.op = "lookup" /\ res.err = "" /\ res.out.handler # NoHandler) =>
        DOMAIN res.out.args = RouteNames(tree[res.router], res.out.pos)

---------------------------------------------------------------------------
(* Properties of failed registrations *)

\* what a lookup gives the caller: the exception, or the handler and the
\* parameter map
Outcome(g) ==
    IF g.err # "" THEN <<g.err>> ELSE <<g.err, g.handler, g.args>>

C31_Step ==
    (IsAddRoute /\ res'.err \in {"ConflictingRoutes", "BadRouteParameter"}) =>
        /\ \A q \in AtomicRequests :
               Outcome(handler_and_args_for(tree'[res'.router], q.path,
                                            q.method))
                   = Outcome(handler_and_args_for(tree[res'.router], q.path,
                                                  q.method))
        /\ \A h \in {H1, H2}, v \in UrlVerbs, pa \in AtomicParams :
               url_for(handler_to_url'[res'.router], h.name, v, pa)
                   = url_for(handler_to_url[res'.router], h.name, v, pa)

\* C31: a failed add_route is atomic: when add_route raises
\* ConflictingRoutes or BadRouteParameter, every lookup (path, verb) and
\* every url_for call gives the same result after the failed call as before
C31_FailedAddAtomic == [][C31_Step]_vars

---------------------------------------------------------------------------
(* Properties of url_for and lookup together *)

\* the values are of the kinds of the parameters of the route: an int for an
\* int parameter, a text for a str parameter
WellTyped(parts, pa) ==
    \A i \in 1..Len(parts) :
        URI_PARAMETER_RE(parts[i]).matched =>
            pa[get_star_attrs(parts[i], <<>>).star_name].kind
                = (IF get_star_attrs(parts[i], <<>>).star_type = INT
                   THEN "int" ELSE "str")

\* url_for has returned the path of route a for the parameters it was given
UrlOf(a) ==
    /\ res.op = "url_for" /\ res.err = ""
    /\ a.router = res.router
    /\ a.handler.name = res.handler.name
    /\ res.methods[1] \in UpperAll(a.methods)
    /\ DOMAIN res.out.args = ParamNames(make_uri_parts(a.path))
    /\ res.path = Filled(make_uri_parts(a.path), res.out.args)
    /\ WellTyped(make_uri_parts(a.path), res.out.args)

\* the lookup of the path url_for returned gives the handler of route a and
\* the parameters url_for was given
TripBack(a) ==
    /\ handler_and_args_for(tree[res.router], res.path, res.methods[1]).err
           = ""
    /\ handler_and_args_for(tree[res.router], res.path,
                            res.methods[1]).handler = a.handler
    /\ handler_and_args_for(tree[res.router], res.path, res.methods[1]).args
           = res.out.args

\* C32 as it is stated: for every (handler, verb) of the reverse index and
\* every parameter map with exactly the required names, the lookup of the
\* path url_for returns, under the verb, gives that handler and a map equal
\* to the one supplied
C32_RoundTrip == \A a \in hist.added : UrlOf(a) => TripBack(a)

\* no literal segment of the route has a brace, and at each parameter
\* segment the text of the value is not empty, has no slash and is not the
\* key of a child of the node the segments before it lead to
Unshadowed(t, parts, pa) ==
    \A i \in 1..Len(parts) :
        IF URI_PARAMETER_RE(parts[i]).matched
        THEN /\ FilledSegment(parts[i], pa) # <<>>
             /\ "/" \notin Range(FilledSegment(parts[i], pa))
             /\ ~HasChild(t, TemplatePos(SubSeq(parts, 1, i - 1)),
                          FilledSegment(parts[i], pa))
        ELSE Range(parts[i]) \cap {"{", "}"} = {}

\* C32: url_for and lookup are inverse on the routes the path does not leave:
\* when no literal segment of the route has a brace and, at each parameter
\* segment, the text of the value is not empty, has no slash and is not the
\* key of a child of the node reached so far, the lookup of the path url_for
\* returns gives the handler of the route and a map equal to the one supplied
C32_RoundTripUnshadowed ==
    \A a \in hist.added :
        (UrlOf(a) /\ Unshadowed(tree[res.router], make_uri_parts(a.path),
                                res.out.args))
            => TripBack(a)

\* url_for has returned /z/7 for /<b>/<c> while /f/<n: int> is registered
\* too, and the lookup of /z/7 leads back
C32_Witness ==
    \E a \in hist.added :
        /\ UrlOf(a) /\ TripBack(a)
        /\ Unshadowed(tree[res.router], make_uri_parts(a.path), res.out.args)
        /\ Cardinality(DOMAIN res.out.args) = 2
        /\ HasChild(tree[res.router], <<<<>>>>, <<"f">>)

---------------------------------------------------------------------------
(* Properties of what attach leaves alone *)

\* the trees have the same nodes, with the same parameters and handlers
SameHandlers(t0, t1) ==
    /\ DOMAIN t0 = DOMAIN t1
    /\ \A pos \in DOMAIN t0 :
           /\ t1[pos].methods = t0[pos].methods
           /\ t1[pos].children = t0[pos].children
           /\ t1[pos].star_name = t0[pos].star_name
           /\ t1[pos].star_type = t0[pos].star_type

\* the ids of the middleware a dispatch entered, in the order it entered them
Entered(log) ==
    LET pre == SelectSeq(log, LAMBDA e : e.ev = "pre")
    IN  [k \in 1..Len(pre) |-> pre[k].id]

C33_Step ==
    /\ IsAttach =>
           /\ middleware' = middleware
           /\ handler_to_url'["sub"] = handler_to_url["sub"]
           /\ SameHandlers(tree["sub"], tree'["sub"])
           /\ \A p \in GraftLookups :
                  Outcome(handler_and_args_for(tree'["sub"], p, GET))
                      = Outcome(handler_and_args_for(tree["sub"], p, GET))
    /\ (res'.op = "dispatched" /\ res'.router = "main") =>
           /\ Entered(run'.log)
                  = [k \in 1..Len(hist.mws["main"]) |-> hist.mws["main"][k].id]
           /\ HandlerRuns(run'.log) # {}

\* C33: attach merges routes only: it leaves the middleware of the parent as
\* it was and the handlers, the middleware and the reverse index of the
\* sub-router as they were, so that a request dispatched through the parent
\* to a mounted route runs the middleware of the parent and none of the
\* sub-router, and the lookups of the sub-router give what they gave before
C33_AttachRoutesOnly == [][C33_Step]_vars

\* a request has been dispatched through the parent to the route /<n: int>
\* of the sub-router, mounted under f, both routers having a middleware
C33_Witness ==
    /\ res.op = "dispatched" /\ res.router = "main"
    /\ res.out.handler = H3 /\ DOMAIN res.out.args # {}
    /\ middleware["main"] # <<>> /\ middleware["sub"] # <<>>
    /\ Len(run.log) = 3

---------------------------------------------------------------------------
(* Properties of sending a response *)

\* the message carries the status and the headers
HasHeaders(msg) == {"status", "headers"} \subseteq DOMAIN msg

C35_Step ==
    (res'.op \in {"stream_to", "send_to"} /\ response.done) =>
        (res'.err = "ResponseError" /\ reply' = reply)

\* C35: a Response sends its status and headers at most once and nothing
\* after it is complete: of the messages sent on the channel only the first
\* carries status and headers, and once a full response has been sent
\* (send_to, or stream_to with done) every further stream_to or send_to
\* raises ResponseError and sends nothing
C35_HeadersOnce ==
    /\ [](\A i \in 2..Len(reply) : ~HasHeaders(reply[i]))
    /\ [][C35_Step]_vars

---------------------------------------------------------------------------
(* Properties of the application's exception handling *)

\* the places, in the list of registered handlers, of those registered for
\* a class of the exception
Matching(handlers, e) ==
    {i \in 1..Len(handlers) : handlers[i].types \cap {e, "Exception"} # {}}

\* those of them that return a response
Responding(handlers, e) ==
    {i \in Matching(handlers, e) : handlers[i].status # 0}

\* the handlers the application is to try: the matching ones, the one
\* registered last first, down to the first that returns a response
ToTry(handlers, e) ==
    {i \in Matching(handlers, e) :
        \A j \in Responding(handlers, e) : j <= i}

\* the status of the response the application is to send
StatusDue(handlers, e) ==
    IF Responding(handlers, e) = {} THEN 500
    ELSE handlers[CHOOSE i \in Responding(handlers, e) :
                      \A j \in Responding(handlers, e) : j <= i].status

RECURSIVE Descending(_)
\* the numbers of a set, the greatest first
Descending(S) ==
    IF S = {} THEN <<>>
    ELSE <<CHOOSE i \in S : \A j \in S : j <= i>>
             \o Descending(S \ {CHOOSE i \in S : \A j \in S : j <= i})

\* the handlers the application is to call, in the order of the calls
TriedDue(handlers, e) ==
    [k \in 1..Cardinality(ToTry(handlers, e)) |->
        handlers[Descending(ToTry(handlers, e))[k]].id]

\* a step in which the application served a request whose dispatch raised
Handled == res'.op = "call" /\ res' # res /\ res'.out.raised # ""

\* C34: when dispatch raises, the application calls the exception handlers
\* registered for a class of the exception, the one registered last first,
\* down to the first that returns a response, and sends that response; it
\* sends the 500 of the default handler when none of them returns one; in
\* each case exactly one message is added to the reply channel.
C34_Step ==
    Handled =>
        /\ res'.out.tried = TriedDue(exception_handlers, res'.out.raised)
        /\ res'.err = ""
        /\ Len(reply') = Len(reply) + 1
        /\ SubSeq(reply', 1, Len(reply)) = reply
        /\ HasHeaders(reply'[Len(reply')])
        /\ reply'[Len(reply')].status
               = StatusDue(exception_handlers, res'.out.raised)

C34_HandlersNewestFirst == [][C34_Step]_vars

\* a request was served whose dispatch raised, a handler registered for the
\* exception returned None and one registered before it gave the response
C34_Witness ==
    /\ res.op = "call"
    /\ res.out.raised = "ParameterTypeError"
    /\ Len(res.out.tried) = 2
    /\ reply[Len(reply)].status = 400
    /\ res.out.tried = <<"log", "bad">>
====
